---- MODULE Spec2Model ----
(***************************************************************************)
(* A model of the task orchestrator: the five Durable Objects              *)
(* TaskInstanceDO, LoadBalancerDO, ServerInstanceDO, ServerRegistryDO and  *)
(* TaskInstanceStatsDO.                                                    *)
(*                                                                         *)
(* Execution model.  A Durable Object runs one event at a time, but an     *)
(* event that awaits a call to another object or a fetch() is suspended    *)
(* and other events of the same object are delivered meanwhile (storage    *)
(* operations do not open that gate).  A handler is therefore modelled as  *)
(* one action per segment between such awaits.  The segments kept apart    *)
(* are the two awaits of TaskInstanceDO.assignAndExecute (selectServer,    *)
(* executeTask) and the fetch() of ServerInstanceDO.executeTask; the       *)
(* callee's own work is done in the step that issues the call (a reply     *)
(* that is slow to arrive), and the short calls between the fleet objects  *)
(* run inside the step of their caller.                                    *)
(*                                                                         *)
(* Each object's fields are one record (lb, reg, srv[s], task[t], ...),    *)
(* and a handler is an operator from records to records, so that a call    *)
(* chain across objects composes inside one action.                        *)
(***************************************************************************)
EXTENDS Integers, Sequences, FiniteSets, TLC

\* ------------------------------------------------------------------------
\* Program constants
\* ------------------------------------------------------------------------
MAX_RETRIES == 3
TASK_TIMEOUT == 3600000
CLEANUP_DELAY == 300000
MAX_WAIT_TIME == 30000
STALE_THRESHOLD == 300000
MAX_IDLE_TIME == 3600000
DEFAULT_MAX_CONCURRENT == 10
INITIAL_HEALTH_SCORE == 100
OFFLINE_FAILURES == 3
RECOVERY_SUCCESSES == 3
HEALTH_GAIN == 5
HEALTH_LOSS == 10
INITIAL_SUCCESS_RATE == 100
DEFAULT_RESPONSE_TIME == 10000

\* ------------------------------------------------------------------------
\* Bounds of the model
\* ------------------------------------------------------------------------
\* Date.now() of the initial state (never 0 on a real clock).
StartTime == 1000
\* How many times the clock advances.
MaxTicks == 2
\* How many health-check alarms fire.
MaxChecks == 3
\* How many selectServer / executeTask calls the ingress side issues directly.
MaxDirectCalls == 2
\* How many times servers enter or leave maintenance.
MaxModeChanges == 2
\* How many calls the clients and backends make on a task.
MaxOps == 4
\* How many assignAndExecute invocations are suspended when a client retries.
MaxInFlight == 1
\* How many times a server is unregistered.
MaxUnregisters == 1
\* How many operations the call-chain specification starts.
MaxRootCalls == 2

\* How many heartbeats the servers send in the registry specification.
MaxBeats == 2

\* How many health checks the health-score specification runs: enough for
\* the score to fall from 100 to its floor and to climb back above it.
MaxHealthChecks == 13

\* How many times the algorithm of the load balancer is set.
MaxAlgorithmChanges == 1
\* How many markServerUnhealthy calls reach the load balancer directly.
MaxMarks == 1

\* How many metric reports reach the load balancer in the weight
\* specification.
MaxReports == 2

\* How many health checks in a row the recovery specification lets succeed:
\* more than the 3 that lead a degraded server back online.
MaxSuccesses == 5

\* The start and complete events the aggregator of one day receives.
MaxStatEvents == 3

\* The client operations on the task whose progress is followed to the end.
MaxLiveOps == 3

\* The clock advances by the retention delay or by the task timeout.
TickSteps == {CLEANUP_DELAY, TASK_TIMEOUT}

\* ------------------------------------------------------------------------
\* Values
\* ------------------------------------------------------------------------
Null == [null |-> TRUE]
NoServer == "none"
NoError == ""
NoAlarm == -1

Tasks == {"t1"}
Servers == {"s1", "s2"}
Capabilities == {"video", "image"}

TerminalStatuses == {"COMPLETED", "FAILED", "TIMEOUT", "CANCELLED"}
ActiveStatuses == {"PENDING", "PROCESSING"}
TaskStatuses == ActiveStatuses \cup TerminalStatuses

\* The ServerConfig each server registers with (immutable after registration).
ServerConfig(s) ==
  IF s = "s1"
    THEN [id |-> "s1", maxConcurrent |-> 1, capabilities |-> {"video"},
          groups |-> {"gpu"}]
    ELSE [id |-> s, maxConcurrent |-> 2, capabilities |-> {"image"},
          groups |-> {}]

\* DurableObjectId.toString() of idFromName(s): a hex digest, never the name.
InstanceId(s) == "id:" \o s

LBKeys == Servers \cup {InstanceId(s) : s \in Servers}

\* ------------------------------------------------------------------------
\* Helpers on insertion-ordered maps and sets (JS Map / Set)
\* ------------------------------------------------------------------------
Range(q) == {q[i] : i \in 1..Len(q)}

\* Set.add / Map.set of a new key: appended; of an old key: position kept.
SeqAdd(q, x) == IF x \in Range(q) THEN q ELSE Append(q, x)

\* Set.delete / Map.delete.
SeqDel(q, x) == SelectSeq(q, LAMBDA y : y # x)

MapSet(m, k, v) == (k :> v) @@ m

MapDel(m, k) == [x \in DOMAIN m \ {k} |-> m[x]]

MapGet(m, k, dflt) == IF k \in DOMAIN m THEN m[k] ELSE dflt

Max(a, b) == IF a >= b THEN a ELSE b

Min(a, b) == IF a <= b THEN a ELSE b

\* ------------------------------------------------------------------------
\* Rationals n/d (successRate, averageResponseTime are JS numbers)
\* ------------------------------------------------------------------------
Rat(n, d) == [n |-> n, d |-> d]

RatLess(a, b) == a.n * b.d < b.n * a.d

\* ------------------------------------------------------------------------
\* ServerRegistryDO
\* ------------------------------------------------------------------------
OnlineFilter == [status |-> "online"]

NoFilter == [status |-> ""]

IsStale(info, t) == t - info.lastHeartbeat > STALE_THRESHOLD

\* A getAvailableServers that looks at the stored status only: no server is
\* marked offline for its age and the result carries the stored status.
GetAvailableServersUnmarked(r, filter, t) ==
  LET kept == SelectSeq(r.order,
                LAMBDA id : filter.status = "" \/ r.servers[id].status = filter.status)
  IN [reg |-> r,
      result |-> [i \in 1..Len(kept) |->
                    [id |-> kept[i],
                     status |-> r.servers[kept[i]].status,
                     config |-> ServerConfig(kept[i])]]]

\* getAvailableServers: a stale online server is first marked offline in the
\* registry's own map; the result carries the effective status.
GetAvailableServers(r, filter, t) ==
  LET marked == [id \in DOMAIN r.servers |->
                   IF IsStale(r.servers[id], t) /\ r.servers[id].status = "online"
                     THEN [r.servers[id] EXCEPT !.status = "offline"]
                     ELSE r.servers[id]]
      kept == SelectSeq(r.order,
                LAMBDA id : filter.status = "" \/ marked[id].status = filter.status)
  IN [reg |-> [r EXCEPT !.servers = marked],
      result |-> [i \in 1..Len(kept) |->
                    [id |-> kept[i],
                     status |-> IF IsStale(marked[kept[i]], t)
                                  THEN "offline" ELSE marked[kept[i]].status,
                     config |-> ServerConfig(kept[i])]]]

\* updateHeartbeat on a registered server (the caller checks registration).
UpdateHeartbeatInfo(info, t) ==
  [info EXCEPT !.lastHeartbeat = t,
               !.status = IF info.status = "offline" THEN "online" ELSE @]

\* ------------------------------------------------------------------------
\* LoadBalancerDO
\* ------------------------------------------------------------------------
\* calculateWeight: round((successRate * 10 + max(0, 10 - art / 1000)) / 2),
\* with (successRate || 0) and (averageResponseTime || 10000).
CalculateWeight(m) ==
  LET art == IF m.averageResponseTime.n = 0
               THEN Rat(DEFAULT_RESPONSE_TIME, 1) ELSE m.averageResponseTime
      rwn == Max(0, 10000 * art.d - art.n)
      rwd == 1000 * art.d
      P == 10 * m.successRate.n * rwd + rwn * m.successRate.d
      Q == 2 * m.successRate.d * rwd
  IN (2 * P + Q) \div (2 * Q)

\* The metrics refreshServerList records for a server it has none for.
InitialMetrics(cfg) ==
  [successRate |-> Rat(INITIAL_SUCCESS_RATE, 1),
   averageResponseTime |-> Rat(0, 1),
   activeTasks |-> 0,
   status |-> "online",
   healthy |-> TRUE,
   capabilities |-> cfg.capabilities,
   maxCapacity |-> IF cfg.maxConcurrent = 0 THEN DEFAULT_MAX_CONCURRENT
                   ELSE cfg.maxConcurrent,
   taskCompleted |-> FALSE]

Ids(result) == [i \in 1..Len(result) |-> result[i].id]

\* refreshServerList: the healthy set becomes the registry's online list,
\* missing metrics are initialised, and weights, loads and metrics of every
\* key that has a weight and is not in the list are dropped.
RefreshServerList(l, r, t) ==
  LET ga == GetAvailableServers(r, OnlineFilter, t)
      healthy == Ids(ga.result)
      withInit == [k \in DOMAIN l.metrics \cup Range(healthy) |->
                     IF k \in DOMAIN l.metrics THEN l.metrics[k]
                     ELSE InitialMetrics(ServerConfig(k))]
      gone == DOMAIN l.weights \ Range(healthy)
  IN [reg |-> ga.reg,
      lb |-> [l EXCEPT !.healthy = healthy,
                       !.metrics = [k \in DOMAIN withInit \ gone |-> withInit[k]],
                       !.weights = [k \in DOMAIN l.weights \ gone |-> l.weights[k]],
                       !.loads = [k \in DOMAIN l.loads \ gone |-> l.loads[k]]]]

\* A selectServer without its filter: every healthy server is a candidate.
AvailableServersUnfiltered(l, criteria) == l.healthy

\* The filter of selectServer: metrics present, below capacity, capabilities.
IsCandidate(l, id, criteria) ==
  /\ id \in DOMAIN l.metrics
  /\ l.metrics[id].activeTasks < l.metrics[id].maxCapacity
  /\ criteria.requiredCapabilities \subseteq l.metrics[id].capabilities

AvailableServers(l, criteria) ==
  SelectSeq(l.healthy, LAMBDA id : IsCandidate(l, id, criteria))

\* this.serverWeights.get(serverId) || 1
WeightOrOne(l, id) ==
  IF id \in DOMAIN l.weights /\ l.weights[id] # 0 THEN l.weights[id] ELSE 1

RECURSIVE WeightedLength(_, _)
WeightedLength(l, servers) ==
  IF servers = <<>> THEN 0
  ELSE WeightOrOne(l, Head(servers)) + WeightedLength(l, Tail(servers))

\* weightedList[i] (0-based), the list holding each server weight times.
RECURSIVE WeightedAt(_, _, _)
WeightedAt(l, servers, i) ==
  IF i < WeightOrOne(l, Head(servers)) THEN Head(servers)
  ELSE WeightedAt(l, Tail(servers), i - WeightOrOne(l, Head(servers)))

NextRoundRobinIndex(l, servers) ==
  IF WeightedLength(l, servers) = 0 THEN l.rr
  ELSE (l.rr + 1) % WeightedLength(l, servers)

WeightedRoundRobinSelect(l, servers) ==
  IF WeightedLength(l, servers) = 0 THEN servers[1]
  ELSE WeightedAt(l, servers, NextRoundRobinIndex(l, servers))

\* leastConnectionsSelect: the first server with the smallest load.
RECURSIVE LeastFrom(_, _, _)
LeastFrom(l, servers, best) ==
  IF servers = <<>> THEN best
  ELSE LeastFrom(l, Tail(servers),
         IF MapGet(l.loads, Head(servers), 0) < MapGet(l.loads, best, 0)
           THEN Head(servers) ELSE best)

LeastConnectionsSelect(l, servers) == LeastFrom(l, Tail(servers), servers[1])

\* responseTimeSelect: (averageResponseTime || Infinity), strict minimum;
\* best = NoServer stands for minTime = Infinity.
RECURSIVE FastestFrom(_, _, _)
FastestFrom(l, servers, best) ==
  IF servers = <<>> THEN best
  ELSE LET art == l.metrics[Head(servers)].averageResponseTime
       IN FastestFrom(l, Tail(servers),
            IF art.n # 0 /\ (best = NoServer
                             \/ RatLess(art, l.metrics[best].averageResponseTime))
              THEN Head(servers) ELSE best)

ResponseTimeSelect(l, servers) ==
  IF FastestFrom(l, servers, NoServer) = NoServer THEN servers[1]
  ELSE FastestFrom(l, servers, NoServer)

\* randomSelect: pick is Math.floor(Math.random() * servers.length) + 1.
RandomSelect(servers, pick) == servers[pick]

Algorithms == {"round-robin", "weighted-round-robin", "least-connections",
               "response-time", "random"}

\* The switch of selectServer on this.algorithm.
ApplyAlgorithm(l, servers, pick) ==
  CASE l.algorithm = "weighted-round-robin" -> WeightedRoundRobinSelect(l, servers)
    [] l.algorithm = "least-connections" -> LeastConnectionsSelect(l, servers)
    [] l.algorithm = "response-time" -> ResponseTimeSelect(l, servers)
    [] OTHER -> RandomSelect(servers, pick)

\* The values Math.random() can give selectServer for these candidates.
Picks(l, servers) ==
  IF l.algorithm \in {"weighted-round-robin", "least-connections", "response-time"}
     \/ servers = <<>>
    THEN {1} ELSE 1..Len(servers)

\* selectServer: refresh, filter, select, count the load.
SelectServer(l, r, criteria, t, pick) ==
  LET rf == RefreshServerList(l, r, t)
      servers == AvailableServers(rf.lb, criteria)
      selected == ApplyAlgorithm(rf.lb, servers, pick)
  IN IF servers = <<>>
       THEN [lb |-> rf.lb, reg |-> rf.reg, selected |-> NoServer]
       ELSE [lb |-> [rf.lb EXCEPT
                       !.rr = IF rf.lb.algorithm = "weighted-round-robin"
                                THEN NextRoundRobinIndex(rf.lb, servers) ELSE @,
                       !.loads = MapSet(@, selected, MapGet(@, selected, 0) + 1)],
             reg |-> rf.reg,
             selected |-> selected]

\* The values of pick selectServer can draw in this state.
SelectPicks(l, r, criteria, t) ==
  Picks(RefreshServerList(l, r, t).lb,
        AvailableServers(RefreshServerList(l, r, t).lb, criteria))

\* updateServerMetrics(serverId, metrics)
UpdateServerMetrics(l, key, m) ==
  [l EXCEPT !.metrics = MapSet(@, key, m),
            !.weights = MapSet(@, key, CalculateWeight(m)),
            !.healthy = IF m.healthy THEN SeqAdd(@, key) ELSE SeqDel(@, key),
            !.loads = IF m.taskCompleted
                        THEN MapSet(@, key, Max(0, MapGet(@, key, 0) - 1)) ELSE @]

\* markServerUnhealthy(serverId)
MarkServerUnhealthy(l, key) ==
  [l EXCEPT !.healthy = SeqDel(@, key), !.weights = MapSet(@, key, 0)]

\* rebalance: the healthy set becomes the registry's online list and every
\* listed server gets its weight from its metrics, or 1 without metrics.
Rebalance(l, r, t) ==
  LET ga == GetAvailableServers(r, OnlineFilter, t)
      healthy == Ids(ga.result)
  IN [reg |-> ga.reg,
      lb |-> [l EXCEPT !.healthy = healthy,
                       !.weights = [k \in DOMAIN l.weights \cup Range(healthy) |->
                                      IF k \in Range(healthy)
                                        THEN IF k \in DOMAIN l.metrics
                                               THEN CalculateWeight(l.metrics[k])
                                               ELSE 1
                                        ELSE l.weights[k]]]]

\* ------------------------------------------------------------------------
\* ServerInstanceDO
\* ------------------------------------------------------------------------
\* The fields of a ServerInstanceDO no initialize() has reached.
NewServerInstance(t) ==
  [config |-> FALSE,
   status |-> "initializing",
   healthScore |-> INITIAL_HEALTH_SCORE,
   consecutiveFailures |-> 0,
   consecutiveSuccesses |-> 0,
   lastActivityTime |-> t,
   activeTasks |-> {},
   metrics |-> [tasksProcessed |-> 0, successCount |-> 0, failureCount |-> 0,
                totalDuration |-> 0],
   alarm |-> FALSE,
   stored |-> [config |-> FALSE, status |-> "", initialized |-> FALSE]]

\* this.config?.maxConcurrent || 10
MaxConcurrentOf(si, s) ==
  IF si.config /\ ServerConfig(s).maxConcurrent # 0
    THEN ServerConfig(s).maxConcurrent ELSE DEFAULT_MAX_CONCURRENT

\* getMetrics(): the fields the load balancer reads.
GetMetrics(si, s) ==
  [successRate |-> IF si.metrics.tasksProcessed = 0 THEN Rat(0, 1)
                   ELSE Rat(si.metrics.successCount, si.metrics.tasksProcessed),
   averageResponseTime |-> IF si.metrics.tasksProcessed = 0 THEN Rat(0, 1)
                   ELSE Rat(si.metrics.totalDuration, si.metrics.tasksProcessed),
   activeTasks |-> Cardinality(si.activeTasks),
   status |-> si.status,
   healthy |-> si.status = "online",
   capabilities |-> IF si.config THEN ServerConfig(s).capabilities ELSE {},
   maxCapacity |-> MaxConcurrentOf(si, s),
   taskCompleted |-> FALSE]

\* initialize(config), up to its call of the load balancer.
Initialize(si, t) ==
  [si EXCEPT !.config = TRUE,
             !.status = "online",
             !.lastActivityTime = t,
             !.stored = [config |-> TRUE, status |-> "online", initialized |-> TRUE],
             !.alarm = TRUE]

\* updateMetrics(success, duration)
UpdateMetrics(si, success, duration) ==
  [si EXCEPT !.metrics =
     [tasksProcessed |-> @.tasksProcessed + 1,
      successCount |-> @.successCount + (IF success THEN 1 ELSE 0),
      failureCount |-> @.failureCount + (IF success THEN 0 ELSE 1),
      totalDuration |-> @.totalDuration + duration]]

\* An executeTask without its capacity check.
ExecuteBeginUnlimited(si, s, taskId, t) ==
  IF si.status # "online"
    THEN [srv |-> si, accepted |-> FALSE, err |-> "Server is not online"]
    ELSE [srv |-> [si EXCEPT !.activeTasks = @ \cup {taskId},
                             !.lastActivityTime = t],
          accepted |-> TRUE, err |-> NoError]

\* An executeTask that does not look at the status of the server.
ExecuteBeginAnyStatus(si, s, taskId, t) ==
  IF Cardinality(si.activeTasks) >= MaxConcurrentOf(si, s)
    THEN [srv |-> si, accepted |-> FALSE, err |-> "Server at maximum capacity"]
    ELSE [srv |-> [si EXCEPT !.activeTasks = @ \cup {taskId},
                             !.lastActivityTime = t],
          accepted |-> TRUE, err |-> NoError]

\* An executeTask whose finally block leaves the active set as it is.
ExecuteFinallyKeepsActive(si, taskId) == si

\* executeTask up to its fetch(): the status repair, the two checks and the
\* entry in the active set.  accepted = FALSE: it threw err.
ExecuteBegin(si, s, taskId, t) ==
  LET fixed == IF si.config /\ si.status = "initializing"
                 THEN [si EXCEPT !.status = "online", !.stored.status = "online"]
                 ELSE si
  IN IF fixed.status # "online"
       THEN [srv |-> fixed, accepted |-> FALSE,
             err |-> "Server is " \o fixed.status \o ", cannot execute tasks"]
     ELSE IF Cardinality(fixed.activeTasks) >= MaxConcurrentOf(fixed, s)
       THEN [srv |-> fixed, accepted |-> FALSE, err |-> "Server at maximum capacity"]
     ELSE [srv |-> [fixed EXCEPT !.activeTasks = @ \cup {taskId},
                                 !.lastActivityTime = t],
           accepted |-> TRUE, err |-> NoError]

\* The finally block of executeTask.
ExecuteFinally(si, taskId) == [si EXCEPT !.activeTasks = @ \ {taskId}]

\* handleHealthSuccess, without its heartbeat to the registry.
HandleHealthSuccess(si) ==
  [si EXCEPT !.consecutiveFailures = 0,
             !.consecutiveSuccesses = @ + 1,
             !.healthScore = Min(100, @ + HEALTH_GAIN),
             !.status = IF @ = "degraded"
                           /\ si.consecutiveSuccesses + 1 >= RECOVERY_SUCCESSES
                          THEN "online" ELSE @]

\* A handleHealthFailure whose score has no floor.
HandleHealthFailureUnfloored(si) ==
  [si EXCEPT !.consecutiveSuccesses = 0,
             !.consecutiveFailures = @ + 1,
             !.healthScore = @ - HEALTH_LOSS,
             !.status = IF si.consecutiveFailures + 1 >= OFFLINE_FAILURES
                          THEN "offline" ELSE "degraded"]

\* handleHealthFailure
HandleHealthFailure(si) ==
  [si EXCEPT !.consecutiveSuccesses = 0,
             !.consecutiveFailures = @ + 1,
             !.healthScore = Max(0, @ - HEALTH_LOSS),
             !.status = IF si.consecutiveFailures + 1 >= OFFLINE_FAILURES
                          THEN "offline"
                        ELSE IF si.consecutiveFailures + 1 >= 1
                          THEN "degraded" ELSE @]

\* The status the constructor gives an instance built from its storage:
\* the stored status, or without one online when the storage holds a
\* configuration and the initialized mark, initializing otherwise.
ReloadedStatus(si) ==
  IF si.stored.config /\ si.stored.status # "" THEN si.stored.status
  ELSE IF si.stored.config /\ si.stored.initialized THEN "online"
  ELSE "initializing"

\* shutdown() with no active task to wait for, up to its call of the load
\* balancer: offline, storage cleared.
Shutdown(si) ==
  [si EXCEPT !.status = "offline",
             !.stored = [config |-> FALSE, status |-> "", initialized |-> FALSE]]

\* ------------------------------------------------------------------------
\* TaskInstanceDO: pure parts
\* ------------------------------------------------------------------------
IsTaskComplete(status) == status \in {"COMPLETED", "FAILED", "TIMEOUT", "CANCELLED"}

IsRetryableStatus(status) == status \in {"FAILED", "TIMEOUT"}

EmptyStore == [task |-> Null, retryCount |-> 0, createdAt |-> 0]

\* The task createTask stores.
NewTask(req, t) ==
  [status |-> "PENDING", request |-> req, serverId |-> NoServer,
   error |-> NoError, createdAt |-> t, updatedAt |-> t, attempts |-> <<>>]

\* The selection criteria assignAndExecute builds.
CriteriaOf(tk) == [requiredCapabilities |-> tk.request.capabilities]

\* A retry() that counts the retry but keeps no record of the attempt.
RetryTaskUnrecorded(tk, rc, t) ==
  [tk EXCEPT !.status = "PENDING", !.error = NoError, !.updatedAt = t]

\* The first half of retry() past its guards: count, record the attempt,
\* back to PENDING.
RetryTask(tk, rc, t) ==
  [tk EXCEPT !.attempts = Append(@, [attemptNumber |-> rc + 1,
                                     previousStatus |-> tk.status,
                                     previousError |-> tk.error]),
             !.status = "PENDING",
             !.error = NoError,
             !.updatedAt = t]

\* A retry() that does not look at the retry counter.
CanRetryUnbounded(tk, rc) ==
  tk # Null /\ IsRetryableStatus(tk.status)

\* Whether retry() gets past its guards.
CanRetry(tk, rc) ==
  tk # Null /\ rc < MAX_RETRIES /\ IsRetryableStatus(tk.status)

\* The merge of updateTask.
ApplyUpdate(tk, upd, t) ==
  [tk EXCEPT !.status = upd.status, !.error = upd.error, !.updatedAt = t]

\* notifyCompletion: the event recordTaskComplete receives.
CompleteEvent(id, tk, rc) ==
  [taskId |-> id, serverId |-> tk.serverId,
   success |-> tk.status = "COMPLETED", retries |-> rc]

\* new Date().getHours() at time t (milliseconds since the epoch, UTC).
HourOf(t) == (t \div 3600000) % 24

\* updateHourlyStats: the counters of the current hour, created at the first
\* event of the hour.
UpdateHourlyStats(st, type, success, t) ==
  LET h == HourOf(t)
      old == MapGet(st.hourlyStats, h, [tasks |-> 0, successful |-> 0, failed |-> 0])
      new == IF type = "START" THEN [old EXCEPT !.tasks = @ + 1]
             ELSE IF success THEN [old EXCEPT !.successful = @ + 1]
             ELSE [old EXCEPT !.failed = @ + 1]
  IN [st EXCEPT !.hourlyStats = MapSet(@, h, new)]

\* The alarm of the aggregator (every 10 s): after the flush, the hourly
\* counters are cleared when the current hour is 0.
StatsAlarmed(st, t) ==
  IF HourOf(t) = 0 THEN [st EXCEPT !.hourlyStats = <<>>] ELSE st

\* recordTaskStart, which the CreateTask route calls once createTask has
\* returned its task.
RecordTaskStart(st, t) ==
  UpdateHourlyStats([st EXCEPT !.totalTasks = @ + 1, !.pendingTasks = @ + 1],
                    "START", TRUE, t)

\* recordTaskComplete: the counters of the aggregator.
RecordTaskComplete(st, ev, t) ==
  UpdateHourlyStats(
    [st EXCEPT !.pendingTasks = Max(0, @ - 1),
               !.successfulTasks = IF ev.success THEN @ + 1 ELSE @,
               !.failedTasks = IF ev.success THEN @ ELSE @ + 1,
               !.retriedTasks = IF ~ev.success /\ ev.retries > 0 THEN @ + 1 ELSE @],
    "COMPLETE", ev.success, t)

VARIABLES
  now,        \* Date.now()
  used,       \* how much of each bound of the model is used up
  reg,        \* ServerRegistryDO
  lb,         \* LoadBalancerDO
  srv,        \* ServerInstanceDO, per server name
  task,       \* TaskInstanceDO.task, per task id (Null before createTask)
  retryCount, \* TaskInstanceDO.retryCount
  tstore,     \* TaskInstanceDO's storage: keys task, retryCount, createdAt
  talarm,     \* TaskInstanceDO's pending alarm (NoAlarm: none)
  calls,      \* suspended assignAndExecute / executeTask invocations
  stats,      \* TaskInstanceStatsDO.stats: its counters
  last,       \* what the last operation did and returned
  chain       \* the calls between objects being awaited, outermost first

vars == <<now, used, reg, lb, srv, task, retryCount, tstore, talarm, calls,
          stats, last, chain>>

\* ------------------------------------------------------------------------
\* Initial state: no server registered, no task created
\* ------------------------------------------------------------------------
Requests ==
  {[async |-> TRUE, capabilities |-> {"video"}],
   [async |-> FALSE, capabilities |-> {"video"}]}

\* The bodies a callback can send to updateTask.
Updates ==
  {[status |-> st, error |-> IF st = "FAILED" THEN "Backend failure" ELSE NoError] :
     st \in {"PENDING", "PROCESSING", "COMPLETED", "FAILED"}}

InitLoadBalancer ==
  [algorithm |-> "weighted-round-robin", weights |-> <<>>, loads |-> <<>>,
   metrics |-> <<>>, rr |-> 0, healthy |-> <<>>]

InitRest ==
  /\ now = StartTime
  /\ used = [ops |-> 0, ticks |-> 0, checks |-> 0, direct |-> 0, unreg |-> 0]
  /\ reg = [servers |-> <<>>, order |-> <<>>, groups |-> <<>>]
  /\ srv = [s \in Servers |-> NewServerInstance(StartTime)]
  /\ task = [t \in Tasks |-> Null]
  /\ retryCount = [t \in Tasks |-> 0]
  /\ tstore = [t \in Tasks |-> EmptyStore]
  /\ talarm = [t \in Tasks |-> NoAlarm]
  /\ calls = {}
  /\ stats = [totalTasks |-> 0,
              pendingTasks |-> 0, successfulTasks |-> 0, failedTasks |-> 0,
              retriedTasks |-> 0, hourlyStats |-> <<>>]
  /\ last = [op |-> "init", id |-> "", ret |-> "", task |-> Null, sel |-> Null]
  /\ chain = <<>>

Init == lb = InitLoadBalancer /\ InitRest

Returned(op, id, ret) ==
  [op |-> op, id |-> id, ret |-> ret, task |-> Null, sel |-> Null]

fleetVars == <<reg, lb, srv>>

taskVars == <<task, retryCount, tstore, talarm>>

\* ------------------------------------------------------------------------
\* The clock.  It is coarse: a step is minutes long, while a suspended
\* invocation lasts at most the 30 s of the fetch timeout and an alarm fires
\* when it is due, so the clock advances only while no invocation is
\* suspended and no alarm of a task is due.
\* ------------------------------------------------------------------------
Tick(d) ==
  /\ calls = {}
  /\ \A t \in Tasks : talarm[t] = NoAlarm \/ now < talarm[t]
  /\ now' = now + d
  /\ last' = Returned("tick", "", "")
  /\ UNCHANGED <<fleetVars, taskVars, calls, stats>>

\* ------------------------------------------------------------------------
\* ServerRegistryDO.registerServer(config), with the calls it awaits:
\* ServerInstanceDO.initialize (which reports its metrics to the load
\* balancer under its instance id) and LoadBalancerDO.rebalance.
\* ------------------------------------------------------------------------
RegisterServer(s) ==
  LET si == Initialize(srv[s], now)
      lb1 == UpdateServerMetrics(lb, InstanceId(s), GetMetrics(si, s))
      info == [status |-> "online", lastHeartbeat |-> now]
      reg1 == [servers |-> MapSet(reg.servers, s, info),
               order |-> SeqAdd(reg.order, s),
               groups |-> [g \in DOMAIN reg.groups \cup ServerConfig(s).groups |->
                             IF g \in ServerConfig(s).groups
                               THEN MapGet(reg.groups, g, {}) \cup {s}
                               ELSE reg.groups[g]]]
      rb == Rebalance(lb1, reg1, now)
  IN /\ srv' = [srv EXCEPT ![s] = si]
     /\ reg' = rb.reg
     /\ lb' = rb.lb
     /\ last' = Returned("registerServer", s, s)
     /\ UNCHANGED <<now, taskVars, calls, stats>>

\* ------------------------------------------------------------------------
\* ServerRegistryDO.unregisterServer(serverId), with the calls it awaits:
\* ServerInstanceDO.shutdown (offline, at most 30 s of waiting for its active
\* tasks, markServerUnhealthy under its instance id, storage cleared) and
\* LoadBalancerDO.rebalance.  An unknown server is skipped.
\* ------------------------------------------------------------------------
\* An unregisterServer that leaves the registration in place.
RemoveServerKeepsEntry(r, s) == r

\* The registration leaves the groups (a group left empty goes) and the map.
RemoveServer(r, s) ==
  [servers |-> MapDel(r.servers, s),
   order |-> SeqDel(r.order, s),
   groups |-> [g \in {h \in DOMAIN r.groups : r.groups[h] \ {s} # {}} |->
                 r.groups[g] \ {s}]]

\* How the awaited shutdown() ends: it returns; the call does not reach the
\* instance; or it throws at markServerUnhealthy, after the status was set and
\* before the storage is cleared.
ShutdownOutcomes == {"ok", "unreachable", "interrupted"}

\* An unregisterServer that gives up when shutdown() throws.
UnregisteredUnlessShutdownFails(f, s, shutdown, t) ==
  IF shutdown = "ok"
    THEN LET rb == Rebalance(MarkServerUnhealthy(f.lb, InstanceId(s)),
                             RemoveServer(f.reg, s), t)
         IN [reg |-> rb.reg, lb |-> rb.lb,
             srv |-> [f.srv EXCEPT ![s] = Shutdown(@)]]
    ELSE f

\* The fleet f = [reg, lb, srv] after unregisterServer(s) of a registered s:
\* the error of shutdown() is caught, the registration is removed and the
\* load balancer rebalances.
Unregistered(f, s, shutdown, t) ==
  LET si == CASE shutdown = "ok" -> Shutdown(f.srv[s])
              [] shutdown = "interrupted" -> [f.srv[s] EXCEPT !.status = "offline"]
              [] OTHER -> f.srv[s]
      lb1 == IF shutdown = "ok" THEN MarkServerUnhealthy(f.lb, InstanceId(s))
             ELSE f.lb
      rb == Rebalance(lb1, RemoveServer(f.reg, s), t)
  IN [reg |-> rb.reg, lb |-> rb.lb, srv |-> [f.srv EXCEPT ![s] = si]]

UnregisterServer(s, shutdown) ==
  IF s \notin DOMAIN reg.servers
    THEN /\ last' = Returned("unregisterServer", s, "not found")
         /\ UNCHANGED <<now, fleetVars, taskVars, calls, stats>>
    ELSE LET f == Unregistered([reg |-> reg, lb |-> lb, srv |-> srv],
                               s, shutdown, now)
         IN /\ srv' = f.srv
            /\ reg' = f.reg
            /\ lb' = f.lb
            /\ last' = Returned("unregisterServer", s, "removed")
            /\ UNCHANGED <<now, taskVars, calls, stats>>

\* ------------------------------------------------------------------------
\* ServerRegistryDO.cleanupStaleServers(): every server of the map whose
\* heartbeat is older than STALE_THRESHOLD is unregistered, in the map's
\* order; a rebalance is requested once more when something was removed.
\* ------------------------------------------------------------------------
\* A cleanup that removes nothing.
CleanupKeepsAll(c, ids, shutdown, t) == c

\* The loop over the ids still to visit; c = [fleet, removed].
RECURSIVE CleanupFrom(_, _, _, _)
CleanupFrom(c, ids, shutdown, t) ==
  IF ids = <<>> THEN c
  ELSE LET s == Head(ids)
           hit == /\ s \in DOMAIN c.fleet.reg.servers
                  /\ t - c.fleet.reg.servers[s].lastHeartbeat > STALE_THRESHOLD
       IN CleanupFrom(IF hit
                        THEN [fleet |-> Unregistered(c.fleet, s, shutdown[s], t),
                              removed |-> Append(c.removed, s)]
                        ELSE c,
                      Tail(ids), shutdown, t)

CleanupStaleServers(shutdown) ==
  LET c == CleanupFrom([fleet |-> [reg |-> reg, lb |-> lb, srv |-> srv],
                        removed |-> <<>>],
                       reg.order, shutdown, now)
      rb == IF Len(c.removed) > 0 THEN Rebalance(c.fleet.lb, c.fleet.reg, now)
            ELSE [reg |-> c.fleet.reg, lb |-> c.fleet.lb]
  IN /\ reg' = rb.reg
     /\ lb' = rb.lb
     /\ srv' = c.fleet.srv
     /\ last' = [Returned("cleanupStaleServers", "", "ok") EXCEPT
                   !.sel = [removed |-> c.removed,
                            rebalances |-> IF Len(c.removed) > 0
                                             THEN Len(c.removed) + 1 ELSE 0]]
     /\ UNCHANGED <<now, taskVars, calls, stats>>

\* ------------------------------------------------------------------------
\* ServerInstanceDO.setMaintenanceMode(enabled)
\* ------------------------------------------------------------------------
SetMaintenanceMode(s, enabled) ==
  LET si == [srv[s] EXCEPT !.status = IF enabled THEN "maintenance" ELSE "online",
                           !.lastActivityTime = now,
                           !.stored.status = IF enabled THEN "maintenance" ELSE "online"]
  IN /\ srv[s].config
     /\ srv' = [srv EXCEPT ![s] = si]
     /\ lb' = IF enabled THEN MarkServerUnhealthy(lb, InstanceId(s))
              ELSE UpdateServerMetrics(lb, InstanceId(s), GetMetrics(si, s))
     /\ last' = Returned("setMaintenanceMode", s, "ok")
     /\ UNCHANGED <<now, reg, taskVars, calls, stats>>

\* ------------------------------------------------------------------------
\* TaskInstanceDO
\* ------------------------------------------------------------------------
\* A suspended assignAndExecute: op is the operation it runs in ("create",
\* "retry", "alarm"), n the retry counter it started with, pc where it
\* waits: "select" for the reply of selectServer (sid), "fetch" for the
\* backend inside executeTask, "reply" for the return of executeTask
\* (ok, err), "wait" inside waitForCompletion.
Call(t, op, n, sid) ==
  [t |-> t, op |-> op, n |-> n, pc |-> "select", sid |-> sid,
   async |-> FALSE, ok |-> FALSE, err |-> NoError, start |-> 0]

\* notifyCompletion followed by scheduleCleanup, as updateTask, cancel and
\* alarm call them.
NotifyAndScheduleCleanup(t, tk, rc) ==
  /\ stats' = RecordTaskComplete(stats, CompleteEvent(t, tk, rc), now)
  /\ talarm' = [talarm EXCEPT ![t] = now + CLEANUP_DELAY]

\* A createTask that never finds an existing task.
TaskExistsNever(tk) == FALSE

\* if (this.task) at the head of createTask
TaskExists(tk) == tk # Null

\* createTask(request, taskId) to its first await.
CreateTask(t, req) ==
  IF TaskExists(task[t])
    THEN /\ last' = [Returned("createTask", t, "existing") EXCEPT !.task = task[t]]
         /\ UNCHANGED <<now, fleetVars, taskVars, calls, stats>>
    ELSE \E pick \in SelectPicks(lb, reg, CriteriaOf(NewTask(req, now)), now) :
           LET tk == NewTask(req, now)
               sel == SelectServer(lb, reg, CriteriaOf(tk), now, pick)
           IN /\ task' = [task EXCEPT ![t] = tk]
              /\ tstore' = [tstore EXCEPT ![t] =
                              [task |-> tk, retryCount |-> 0, createdAt |-> now]]
              /\ talarm' = [talarm EXCEPT ![t] = now + TASK_TIMEOUT]
              /\ lb' = sel.lb
              /\ reg' = sel.reg
              /\ calls' = calls \cup {Call(t, "create", retryCount[t], sel.selected)}
              /\ last' = [Returned("createTask", t, "suspended") EXCEPT
                            !.sel = [criteria |-> CriteriaOf(tk),
                                     selected |-> sel.selected]]
              /\ UNCHANGED <<now, srv, retryCount, stats>>

\* An updateTask that accepts an update in any status.
CanUpdateAnyStatus(tk) == TRUE

\* updateTask: only processing tasks are updated.
CanUpdate(tk) == tk.status = "PROCESSING"

\* updateTask(update)
UpdateTask(t, upd) ==
  IF task[t] = Null
    THEN /\ last' = Returned("updateTask", t, "throw: Task not found")
         /\ UNCHANGED <<now, fleetVars, taskVars, calls, stats>>
  ELSE IF ~CanUpdate(task[t])
    THEN /\ last' = Returned("updateTask", t, "throw: Cannot update task")
         /\ UNCHANGED <<now, fleetVars, taskVars, calls, stats>>
  ELSE LET tk == ApplyUpdate(task[t], upd, now)
       IN /\ task' = [task EXCEPT ![t] = tk]
          /\ tstore' = [tstore EXCEPT ![t].task = tk]
          /\ IF IsTaskComplete(upd.status)
               THEN NotifyAndScheduleCleanup(t, tk, retryCount[t])
               ELSE UNCHANGED <<stats, talarm>>
          /\ last' = Returned("updateTask", t, "ok")
          /\ UNCHANGED <<now, fleetVars, retryCount, calls>>

\* retry() to its first await; RetryFrom is its body past the guards, also
\* run by alarm() after the TIMEOUT transition (tk is the task it finds).
RetryFrom(t, tk, op) ==
  \E pick \in SelectPicks(lb, reg, CriteriaOf(tk), now) :
    LET tk1 == RetryTask(tk, retryCount[t], now)
        sel == SelectServer(lb, reg, CriteriaOf(tk1), now, pick)
    IN /\ retryCount' = [retryCount EXCEPT ![t] = @ + 1]
       /\ task' = [task EXCEPT ![t] = tk1]
       /\ tstore' = [tstore EXCEPT ![t].task = tk1,
                                   ![t].retryCount = retryCount[t] + 1]
       /\ lb' = sel.lb
       /\ reg' = sel.reg
       /\ calls' = calls \cup {Call(t, op, retryCount[t] + 1, sel.selected)}
       /\ last' = [Returned(op, t, "suspended") EXCEPT
                     !.sel = [criteria |-> CriteriaOf(tk1),
                              selected |-> sel.selected]]

Retry(t) ==
  IF ~CanRetry(task[t], retryCount[t])
    THEN /\ last' = Returned("retry", t, "false")
         /\ UNCHANGED <<now, fleetVars, taskVars, calls, stats>>
    ELSE /\ RetryFrom(t, task[t], "retry")
         /\ UNCHANGED <<now, srv, talarm, stats>>

\* A cancel that accepts a task in any status.
CanCancelAnyStatus(tk) == TRUE

\* cancel: a completed task cannot be cancelled.
CanCancel(tk) == ~IsTaskComplete(tk.status)

\* cancel()
Cancel(t) ==
  IF task[t] = Null
    THEN /\ last' = Returned("cancel", t, "throw: Task not found")
         /\ UNCHANGED <<now, fleetVars, taskVars, calls, stats>>
  ELSE IF ~CanCancel(task[t])
    THEN /\ last' = Returned("cancel", t, "throw: Cannot cancel completed task")
         /\ UNCHANGED <<now, fleetVars, taskVars, calls, stats>>
  ELSE LET tk == [task[t] EXCEPT !.status = "CANCELLED", !.updatedAt = now]
       IN /\ task' = [task EXCEPT ![t] = tk]
          /\ tstore' = [tstore EXCEPT ![t].task = tk]
          /\ NotifyAndScheduleCleanup(t, tk, retryCount[t])
          /\ last' = Returned("cancel", t, "ok")
          /\ UNCHANGED <<now, fleetVars, retryCount, calls>>

\* A catch block that returns the task as it finds it.
CreateFailureIgnored(tk, msg) == tk

\* The catch block of createTask: the task is FAILED with the error's message.
CreateFailure(tk, msg) == [tk EXCEPT !.status = "FAILED", !.error = msg]

\* What the operation of call c does once its assignAndExecute has returned
\* (ok) or thrown (msg): the rest of createTask, retry or alarm.  When
\* createTask returns, the route that called it records the start of the task.
CompleteAssign(c, ok, msg) ==
  LET t == c.t
      failed == CreateFailure(task[t], msg)
      polled == IF tstore[t].task # Null THEN tstore[t].task ELSE task[t]
  IN CASE c.op = "create" /\ ~ok ->
            \* the catch block of createTask
            /\ task' = [task EXCEPT ![t] = failed]
            /\ tstore' = [tstore EXCEPT ![t].task = failed]
            /\ calls' = calls \ {c}
            /\ last' = [Returned("createTask return", t, "task") EXCEPT !.task = failed]
            /\ stats' = RecordTaskStart(stats, now)
            /\ UNCHANGED <<retryCount, talarm>>
       [] c.op = "create" /\ ok /\ c.async ->
            /\ calls' = calls \ {c}
            /\ last' = [Returned("createTask return", t, "task") EXCEPT !.task = task[t]]
            /\ stats' = RecordTaskStart(stats, now)
            /\ UNCHANGED taskVars
       [] c.op = "create" /\ ok /\ ~c.async ->
            \* waitForCompletion: the first pass of its loop
            /\ task' = [task EXCEPT ![t] = polled]
            /\ IF IsTaskComplete(polled.status)
                 THEN /\ calls' = calls \ {c}
                      /\ last' = [Returned("createTask return", t, "task") EXCEPT
                                    !.task = polled]
                      /\ stats' = RecordTaskStart(stats, now)
                 ELSE /\ calls' = (calls \ {c}) \cup
                                    {[c EXCEPT !.pc = "wait", !.start = now]}
                      /\ last' = Returned("createTask wait", t, "waiting")
                      /\ stats' = stats
            /\ UNCHANGED <<retryCount, tstore, talarm>>
       [] c.op = "retry" ->
            /\ calls' = calls \ {c}
            /\ last' = Returned("retry return", t, IF ok THEN "true" ELSE "false")
            /\ UNCHANGED <<taskVars, stats>>
       [] c.op = "alarm" /\ ok ->
            /\ calls' = calls \ {c}
            /\ last' = Returned("alarm return", t, "retried")
            /\ UNCHANGED <<taskVars, stats>>
       [] c.op = "alarm" /\ ~ok ->
            \* retry() returned false
            /\ NotifyAndScheduleCleanup(t, task[t], retryCount[t])
            /\ calls' = calls \ {c}
            /\ last' = Returned("alarm return", t, "not retried")
            /\ UNCHANGED <<task, retryCount, tstore>>

\* assignAndExecute resumes with the reply of selectServer: it throws on
\* null; otherwise it marks the task PROCESSING and calls executeTask, whose
\* part up to the fetch() runs here.
AssignResume(c) ==
  /\ c \in calls
  /\ c.pc = "select"
  /\ IF c.sid = NoServer
       THEN /\ CompleteAssign(c, FALSE, "No available servers")
            /\ UNCHANGED <<now, fleetVars>>
       ELSE LET t == c.t
                tk == [task[t] EXCEPT !.serverId = c.sid, !.status = "PROCESSING"]
                eb == ExecuteBegin(srv[c.sid], c.sid, t, now)
            IN /\ task' = [task EXCEPT ![t] = tk]
               /\ tstore' = [tstore EXCEPT ![t].task = tk]
               /\ srv' = [srv EXCEPT ![c.sid] = eb.srv]
               /\ calls' = (calls \ {c}) \cup
                             {[c EXCEPT !.pc = IF eb.accepted THEN "fetch" ELSE "reply",
                                        !.async = tk.request.async,
                                        !.ok = eb.accepted,
                                        !.err = eb.err,
                                        !.start = now]}
               /\ last' = Returned("assignAndExecute", t, "dispatched")
               /\ UNCHANGED <<now, reg, lb, retryCount, talarm, stats>>

\* The backend answers the fetch() of executeTask (ok: 2xx; otherwise a
\* non-2xx answer, a network failure or the 30 s abort); executeTask runs to
\* its end.  For a synchronous request it delivers the result with
\* TaskInstanceDO.updateTask, which runs here (a task id outside Tasks names
\* a TaskInstanceDO that holds no task).
BackendRespond(c, ok) ==
  /\ c \in calls
  /\ c.pc = "fetch"
  /\ LET t == c.t
         s == c.sid
         duration == now - c.start
         deliver == ok /\ ~c.async
         found == t \in Tasks /\ task[t] # Null
         delivered == deliver /\ found /\ task[t].status = "PROCESSING"
         tk == ApplyUpdate(task[t], [status |-> "COMPLETED", error |-> NoError], now)
         counted == IF ~ok THEN UpdateMetrics(srv[s], FALSE, duration)
                    ELSE IF deliver /\ ~delivered
                      THEN UpdateMetrics(UpdateMetrics(srv[s], TRUE, duration),
                                         FALSE, duration)
                    ELSE UpdateMetrics(srv[s], TRUE, duration)
         result == [ok |-> ok /\ (deliver => delivered),
                    err |-> IF ~ok THEN "Backend returned 500"
                            ELSE IF deliver /\ ~delivered
                              THEN IF ~found THEN "Task not found"
                                   ELSE "Cannot update task"
                            ELSE NoError]
     IN /\ srv' = [srv EXCEPT ![s] = ExecuteFinally(counted, t)]
        /\ IF delivered
             THEN /\ task' = [task EXCEPT ![t] = tk]
                  /\ tstore' = [tstore EXCEPT ![t].task = tk]
                  /\ NotifyAndScheduleCleanup(t, tk, retryCount[t])
             ELSE UNCHANGED <<task, tstore, talarm, stats>>
        /\ IF c.op = "direct"
             THEN calls' = calls \ {c}
             ELSE calls' = (calls \ {c}) \cup
                             {[c EXCEPT !.pc = "reply", !.ok = result.ok,
                                        !.err = result.err]}
        /\ last' = Returned("executeTask", t, IF result.ok THEN "ok"
                                               ELSE "throw: " \o result.err)
        /\ UNCHANGED <<now, reg, lb, retryCount>>

\* executeTask has returned or thrown: the operation that awaited it goes on.
ExecuteReturn(c) ==
  /\ c.pc = "reply"
  /\ CompleteAssign(c, c.ok, c.err)
  /\ UNCHANGED <<now, fleetVars>>

\* waitForCompletion after a pause of its loop: reload and test the task, or
\* give up once MAX_WAIT_TIME has passed.
WaitForCompletion(c) ==
  /\ c.pc = "wait"
  /\ LET t == c.t
         polled == IF tstore[t].task # Null THEN tstore[t].task ELSE task[t]
         timedOut == [task[t] EXCEPT !.status = "TIMEOUT",
                                     !.error = "Synchronous task timeout"]
     IN IF now - c.start < MAX_WAIT_TIME
          THEN /\ task' = [task EXCEPT ![t] = polled]
               /\ IF IsTaskComplete(polled.status)
                    THEN /\ calls' = calls \ {c}
                         /\ last' = [Returned("createTask return", t, "task") EXCEPT
                                       !.task = polled]
                         /\ stats' = RecordTaskStart(stats, now)
                    ELSE /\ calls' = calls
                         /\ last' = Returned("createTask wait", t, "waiting")
                         /\ stats' = stats
               /\ UNCHANGED tstore
          ELSE /\ task' = [task EXCEPT ![t] = timedOut]
               /\ tstore' = [tstore EXCEPT ![t].task = timedOut]
               /\ calls' = calls \ {c}
               /\ last' = [Returned("createTask return", t, "task") EXCEPT !.task = timedOut]
               /\ stats' = RecordTaskStart(stats, now)
  /\ UNCHANGED <<now, fleetVars, retryCount, talarm>>

\* The operation suspended in call c goes on after its await: past
\* executeTask, or past a pause of waitForCompletion.
Continue(c) ==
  /\ c \in calls
  /\ IF c.pc = "wait" THEN WaitForCompletion(c) ELSE ExecuteReturn(c)

\* alarm(): the pending alarm has come due.  A PROCESSING task past
\* TASK_TIMEOUT since its stored createdAt times out and is retried; a
\* complete task past CLEANUP_DELAY since updatedAt is purged.
TaskAlarm(t) ==
  /\ talarm[t] # NoAlarm
  /\ now >= talarm[t]
  /\ LET createdAt == tstore[t].createdAt
         timedOut == [task[t] EXCEPT !.status = "TIMEOUT",
                                     !.error = "Task execution timeout",
                                     !.updatedAt = now]
     IN IF /\ task[t] # Null
           /\ task[t].status = "PROCESSING"
           /\ createdAt # 0
           /\ now - createdAt >= TASK_TIMEOUT
          THEN IF CanRetry(timedOut, retryCount[t])
                 THEN /\ RetryFrom(t, timedOut, "alarm")
                      /\ talarm' = [talarm EXCEPT ![t] = NoAlarm]
                      /\ UNCHANGED <<now, srv, stats>>
                 ELSE /\ task' = [task EXCEPT ![t] = timedOut]
                      /\ tstore' = [tstore EXCEPT ![t].task = timedOut]
                      /\ NotifyAndScheduleCleanup(t, timedOut, retryCount[t])
                      /\ last' = Returned("alarm", t, "not retried")
                      /\ UNCHANGED <<now, fleetVars, retryCount, calls>>
        ELSE IF /\ task[t] # Null
                /\ IsTaskComplete(task[t].status)
                /\ now - task[t].updatedAt >= CLEANUP_DELAY
          THEN \* cleanup(): storage.deleteAll()
               /\ tstore' = [tstore EXCEPT ![t] = EmptyStore]
               /\ talarm' = [talarm EXCEPT ![t] = NoAlarm]
               /\ last' = Returned("alarm", t, "cleanup")
               /\ UNCHANGED <<now, fleetVars, task, retryCount, calls, stats>>
        ELSE /\ talarm' = [talarm EXCEPT ![t] = NoAlarm]
             /\ last' = Returned("alarm", t, "nothing")
             /\ UNCHANGED <<now, fleetVars, task, retryCount, tstore, calls,
                            stats>>

\* The object is evicted while idle and constructed again: the constructor
\* loads task and retryCount and schedules the cleanup of a complete task.
Reload(t) ==
  /\ \A c \in calls : c.t # t
  /\ task[t] # Null
  /\ task' = [task EXCEPT ![t] = tstore[t].task]
  /\ retryCount' = [retryCount EXCEPT ![t] = tstore[t].retryCount]
  /\ talarm' = IF tstore[t].task # Null /\ IsTaskComplete(tstore[t].task.status)
                 THEN [talarm EXCEPT ![t] = now + CLEANUP_DELAY]
                 ELSE talarm
  /\ last' = Returned("constructor", t, "")
  /\ UNCHANGED <<now, fleetVars, tstore, calls, stats>>

\* ------------------------------------------------------------------------
\* ServerInstanceDO.alarm(): idle shutdown, or a health check whose fetch of
\* the health endpoint ends as outcome, then the next alarm is scheduled.
\* ------------------------------------------------------------------------
HealthOutcomes == {"ok", "mismatch", "error"}

\* performHealthCheck on the server's, registry's and balancer's records.
PerformHealthCheck(s, outcome) ==
  LET si == IF outcome = "ok" THEN HandleHealthSuccess(srv[s])
            ELSE HandleHealthFailure(srv[s])
      beat == outcome = "ok" /\ s \in DOMAIN reg.servers
      wasOffline == beat /\ reg.servers[s].status = "offline"
      reg1 == IF beat
                THEN [reg EXCEPT !.servers[s] = UpdateHeartbeatInfo(@, now)]
                ELSE reg
      rb == IF wasOffline THEN Rebalance(lb, reg1, now)
            ELSE [reg |-> reg1, lb |-> lb]
  IN [srv |-> si,
      reg |-> rb.reg,
      lb |-> UpdateServerMetrics(rb.lb, InstanceId(s), GetMetrics(si, s))]

ServerAlarm(s, outcome) ==
  /\ srv[s].alarm
  /\ srv[s].config
  /\ IF now - srv[s].lastActivityTime > MAX_IDLE_TIME /\ srv[s].activeTasks = {}
       THEN /\ srv' = [srv EXCEPT ![s] = [Shutdown(@) EXCEPT !.alarm = FALSE]]
            /\ lb' = MarkServerUnhealthy(lb, InstanceId(s))
            /\ reg' = reg
            /\ last' = Returned("serverAlarm", s, "shutdown")
       ELSE LET hc == PerformHealthCheck(s, outcome)
            IN /\ srv' = [srv EXCEPT ![s] = hc.srv]
               /\ lb' = hc.lb
               /\ reg' = hc.reg
               /\ last' = Returned("serverAlarm", s, hc.srv.status)
  /\ UNCHANGED <<now, taskVars, calls, stats>>

\* ------------------------------------------------------------------------
\* Calls from outside the task objects
\* ------------------------------------------------------------------------
CriteriaSet == {[requiredCapabilities |-> cs] : cs \in {{}, {"video"}}}

\* LoadBalancerDO.selectServer(criteria)
DirectSelect(criteria) ==
  /\ \E pick \in SelectPicks(lb, reg, criteria, now) :
       LET sel == SelectServer(lb, reg, criteria, now, pick)
       IN /\ lb' = sel.lb
          /\ reg' = sel.reg
          /\ last' = [Returned("selectServer", "", sel.selected) EXCEPT
                        !.sel = [criteria |-> criteria, selected |-> sel.selected]]
  /\ UNCHANGED <<now, srv, taskVars, calls, stats>>

\* A number no suspended direct invocation carries.
FreshCall ==
  CHOOSE n \in 0..Cardinality(calls) : \A c \in calls : c.op = "direct" => c.n # n

\* ServerInstanceDO.executeTask(execution) for task id t, to its fetch().
DirectExecute(s, t, async) ==
  /\ LET eb == ExecuteBegin(srv[s], s, t, now)
     IN /\ srv' = [srv EXCEPT ![s] = eb.srv]
        /\ calls' = IF eb.accepted
                      THEN calls \cup
                             {[Call(t, "direct", FreshCall, s) EXCEPT
                                 !.pc = "fetch", !.async = async, !.start = now]}
                      ELSE calls
        /\ last' = Returned("executeTask", t, IF eb.accepted THEN "suspended"
                                               ELSE "throw: " \o eb.err)
  /\ UNCHANGED <<now, reg, lb, taskVars, stats>>

\* LoadBalancerDO.markServerUnhealthy(serverId), called with the key under
\* which the load balancer knows a server.
MarkUnhealthyCall(key) ==
  /\ lb' = MarkServerUnhealthy(lb, key)
  /\ last' = Returned("markServerUnhealthy", key, "ok")
  /\ UNCHANGED <<now, reg, srv, taskVars, calls, stats>>

\* The metrics a report can carry: success rates 0, 1/2 and 1, and average
\* response times of 0 ms, 1 ms, 5 s and 20 s.
ReportedMetrics ==
  {[successRate |-> sr, averageResponseTime |-> art, activeTasks |-> 0,
    status |-> "online", healthy |-> TRUE, capabilities |-> {},
    maxCapacity |-> DEFAULT_MAX_CONCURRENT, taskCompleted |-> FALSE] :
     sr \in {Rat(0, 1), Rat(1, 2), Rat(1, 1)},
     art \in {Rat(0, 1), Rat(1, 1), Rat(5000, 1), Rat(20000, 1)}}

\* LoadBalancerDO.updateServerMetrics(serverId, metrics)
ReportMetrics(key, m) ==
  /\ lb' = UpdateServerMetrics(lb, key, m)
  /\ last' = Returned("updateServerMetrics", key, "ok")
  /\ UNCHANGED <<now, reg, srv, taskVars, calls, stats>>

\* LoadBalancerDO.setAlgorithm(algorithm)
SetAlgorithm(a) ==
  /\ lb' = [lb EXCEPT !.algorithm = a]
  /\ last' = Returned("setAlgorithm", "", a)
  /\ UNCHANGED <<now, reg, srv, taskVars, calls, stats>>

\* ------------------------------------------------------------------------
\* The calls between objects that an operation awaits.  A frame is one
\* invocation: the object it runs on, the method, the server it concerns, the
\* mode that decides its branches, and at, the awaited call it has reached.
\* ------------------------------------------------------------------------
Frame(actor, op, s, mode) ==
  [actor |-> actor, op |-> op, s |-> s, mode |-> mode, at |-> 1]

ServerActor(s) == "server:" \o s

\* ServerRegistryDO: registerServer awaits instance.initialize and
\* notifyLoadBalancer; unregisterServer awaits instance.shutdown and
\* notifyLoadBalancer; updateHeartbeat awaits notifyLoadBalancer when the
\* server was offline.  notifyLoadBalancer awaits loadBalancer.rebalance.
RegistryAwaits(f) ==
  CASE f.op = "registerServer" ->
         <<Frame(ServerActor(f.s), "initialize", f.s, ""),
           Frame("balancer", "rebalance", f.s, "")>>
    [] f.op = "unregisterServer" ->
         <<Frame(ServerActor(f.s), "shutdown", f.s, ""),
           Frame("balancer", "rebalance", f.s, "")>>
    [] f.op = "updateHeartbeat" /\ f.mode = "offline" ->
         <<Frame("balancer", "rebalance", f.s, "")>>
    [] OTHER -> <<>>

\* LoadBalancerDO: rebalance and selectServer (through refreshServerList)
\* await registry.getAvailableServers.
BalancerAwaits(f) ==
  IF f.op \in {"rebalance", "selectServer"}
    THEN <<Frame("registry", "getAvailableServers", f.s, "")>>
    ELSE <<>>

\* ServerInstanceDO: initialize awaits updateServerMetrics, shutdown awaits
\* markServerUnhealthy, setMaintenanceMode one of the two; a health check
\* awaits registry.updateHeartbeat when the backend is healthy, then
\* updateServerMetrics; executeTask awaits taskInstance.updateTask when the
\* request is synchronous and the backend answered.
InstanceAwaits(f) ==
  CASE f.op = "initialize" ->
         <<Frame("balancer", "updateServerMetrics", f.s, "")>>
    [] f.op = "shutdown" ->
         <<Frame("balancer", "markServerUnhealthy", f.s, "")>>
    [] f.op = "setMaintenanceMode" ->
         <<Frame("balancer", IF f.mode = "on" THEN "markServerUnhealthy"
                             ELSE "updateServerMetrics", f.s, "")>>
    [] f.op = "alarm" /\ f.mode \in {"online", "offline"} ->
         <<Frame("registry", "updateHeartbeat", f.s, f.mode),
           Frame("balancer", "updateServerMetrics", f.s, "")>>
    [] f.op = "alarm" ->
         <<Frame("balancer", "updateServerMetrics", f.s, "")>>
    [] f.op = "executeTask" /\ f.mode = "sync" ->
         <<Frame("task", "updateTask", f.s, "COMPLETED")>>
    [] OTHER -> <<>>

\* TaskInstanceDO: createTask awaits selectServer and executeTask; a
\* terminal updateTask and cancel await stats.recordTaskComplete.
TaskAwaits(f) ==
  CASE f.op = "createTask" ->
         <<Frame("balancer", "selectServer", f.s, ""),
           Frame(ServerActor(f.s), "executeTask", f.s, f.mode)>>
    [] f.op = "updateTask" /\ f.mode = "COMPLETED" ->
         <<Frame("stats", "recordTaskComplete", f.s, "")>>
    [] f.op = "cancel" ->
         <<Frame("stats", "recordTaskComplete", f.s, "")>>
    [] OTHER -> <<>>

Awaits(f) ==
  CASE f.actor = "registry" -> RegistryAwaits(f)
    [] f.actor = "balancer" -> BalancerAwaits(f)
    [] f.actor = "task" -> TaskAwaits(f)
    [] f.actor = "stats" -> <<>>
    [] OTHER -> InstanceAwaits(f)

\* The operations that arrive from outside: HTTP routes and alarms.
RootCalls ==
  UNION {{Frame("registry", "registerServer", s, ""),
          Frame("registry", "unregisterServer", s, ""),
          Frame(ServerActor(s), "setMaintenanceMode", s, "on"),
          Frame(ServerActor(s), "setMaintenanceMode", s, "off"),
          Frame(ServerActor(s), "alarm", s, "online"),
          Frame(ServerActor(s), "alarm", s, "offline"),
          Frame(ServerActor(s), "alarm", s, "failed"),
          Frame("task", "createTask", s, "sync"),
          Frame("task", "createTask", s, "async"),
          Frame("task", "updateTask", s, "COMPLETED"),
          Frame("task", "updateTask", s, "PROCESSING"),
          Frame("task", "cancel", s, "")} : s \in Servers}

othersVars == <<now, reg, lb, srv, task, retryCount, tstore, talarm, calls,
                stats>>

\* An operation arrives while no other is under way.
StartCall(f) ==
  /\ chain = <<>>
  /\ chain' = <<f>>
  /\ last' = Returned(f.op, f.s, "started")
  /\ UNCHANGED othersVars

\* The innermost invocation issues its next awaited call.  The callee is
\* admitted even when its object is suspended further out in the chain: an
\* object awaiting a call to another object keeps receiving events.
AwaitNext ==
  /\ chain # <<>>
  /\ LET f == chain[Len(chain)]
     IN /\ f.at <= Len(Awaits(f))
        /\ chain' = Append(chain, Awaits(f)[f.at])
        /\ last' = Returned(Awaits(f)[f.at].op, f.s, "called")
  /\ UNCHANGED othersVars

\* The innermost invocation has no call left to await and returns; its
\* caller goes on to its next awaited call.
ReturnCall ==
  /\ chain # <<>>
  /\ LET n == Len(chain)
         f == chain[n]
     IN /\ f.at > Len(Awaits(f))
        /\ chain' = IF n = 1 THEN <<>>
                    ELSE [SubSeq(chain, 1, n - 1) EXCEPT ![n - 1].at = @ + 1]
        /\ last' = Returned(f.op, f.s, "returned")
  /\ UNCHANGED othersVars

\* The calls whose only purpose is to keep another object's view up to date:
\* the load balancer's rebalance and metric updates, the registry's
\* heartbeat.
OptimizingCalls ==
  {"rebalance", "updateServerMetrics", "markServerUnhealthy", "updateHeartbeat"}

\* Whether the call invocation f is awaiting sits in a try/catch that
\* swallows its error: the registry's notifyLoadBalancer and its call of
\* shutdown, the instance's heartbeat, createTask's assignAndExecute.
Catches(f) ==
  /\ f.at <= Len(Awaits(f))
  /\ CASE f.actor = "registry" -> Awaits(f)[f.at].op \in {"rebalance", "shutdown"}
       [] f.actor = "task" -> f.op = "createTask"
       [] f.actor \in {"balancer", "stats"} -> FALSE
       [] OTHER -> Awaits(f)[f.at].op = "updateHeartbeat"

\* The innermost invocation is an optimizing call and it throws.  The error
\* passes through every caller that does not catch it: the nearest caller
\* that does goes on to its next call, and without one the operation fails.
\* thrown holds the operations the error made throw.
ThrowCall ==
  /\ Len(chain) >= 2
  /\ chain[Len(chain)].op \in OptimizingCalls
  /\ LET n == Len(chain)
         catchers == {k \in 1..(n - 1) : Catches(chain[k])}
         k == IF catchers = {} THEN 0
              ELSE CHOOSE c \in catchers : \A d \in catchers : d <= c
     IN /\ chain' = IF k = 0 THEN <<>>
                    ELSE [SubSeq(chain, 1, k) EXCEPT ![k].at = @ + 1]
        /\ last' = [Returned("failure", chain[n].s, chain[n].op) EXCEPT
                      !.sel = [thrown |-> {chain[i].op : i \in (k + 1)..(n - 1)},
                               caught |-> k # 0]]
  /\ UNCHANGED othersVars

\* ------------------------------------------------------------------------
\* Specifications
\* ------------------------------------------------------------------------
\* One more step of kind k, while the bound max of the model allows it.  The
\* steps of the handlers run the calls they await to their end, so they
\* leave no call awaited.
Spend(k, max) ==
  /\ used[k] < max
  /\ used' = [used EXCEPT ![k] = @ + 1]
  /\ UNCHANGED chain

Free == UNCHANGED <<used, chain>>

\* A server registers when it is not registered, and again when its
\* registration has gone stale.
MayRegister(s) ==
  IF s \in DOMAIN reg.servers THEN IsStale(reg.servers[s], now) ELSE TRUE

\* The servers of the task specification.
TaskFleet == {"s1"}

\* The life of a task: the task operations against a registered fleet.
Next ==
  \/ \E d \in TickSteps : Spend("ticks", MaxTicks) /\ Tick(d)
  \/ \E s \in TaskFleet : MayRegister(s) /\ RegisterServer(s) /\ Free
  \/ \E t \in Tasks, r \in Requests : Spend("ops", MaxOps) /\ CreateTask(t, r)
  \/ \E t \in Tasks, u \in Updates : Spend("ops", MaxOps) /\ UpdateTask(t, u)
  \/ \E t \in Tasks : Spend("ops", MaxOps) /\ Cardinality(calls) < MaxInFlight /\ Retry(t)
  \/ \E t \in Tasks : Spend("ops", MaxOps) /\ Cancel(t)
  \/ \E t \in Tasks : TaskAlarm(t) /\ Free
  \/ \E t \in Tasks : Spend("ops", MaxOps) /\ Reload(t)
  \/ \E c \in calls : AssignResume(c) /\ Free
  \/ \E c \in calls, ok \in BOOLEAN : BackendRespond(c, ok) /\ Free
  \/ \E c \in calls : Continue(c) /\ Free

Spec == Init /\ [][Next]_vars

\* The servers whose health checks the fleet specification runs.
CheckedFleet == {"s1"}

\* The fleet: registration, health checks and the clock, with selectServer
\* called directly under each algorithm.
NextFleet ==
  \/ \E d \in TickSteps : Spend("ticks", MaxTicks) /\ Tick(d)
  \/ \E s \in Servers : MayRegister(s) /\ RegisterServer(s) /\ Free
  \/ \E s \in CheckedFleet, o \in HealthOutcomes :
       Spend("checks", MaxChecks) /\ ServerAlarm(s, o)
  \/ \E cr \in CriteriaSet : Spend("direct", MaxDirectCalls) /\ DirectSelect(cr)

\* The load balancer is constructed with the algorithm its storage holds.
InitFleet ==
  \E a \in {"weighted-round-robin", "least-connections", "random"} :
    /\ lb = [InitLoadBalancer EXCEPT !.algorithm = a]
    /\ InitRest

SpecFleet == InitFleet /\ [][NextFleet]_vars

\* The task ids of direct executeTask calls.
ExecIds == {"t1", "t2"}

\* Concurrent executions: executeTask called directly on registered servers
\* that go in and out of maintenance, and the backend's answers.
NextExec ==
  \/ \E s \in Servers : MayRegister(s) /\ RegisterServer(s) /\ Free
  \/ \E s \in Servers, o \in ShutdownOutcomes :
       Spend("unreg", MaxUnregisters) /\ UnregisterServer(s, o)
  \/ \E s \in Servers, e \in BOOLEAN :
       Spend("ops", MaxModeChanges) /\ SetMaintenanceMode(s, e)
  \/ \E s \in Servers, t \in ExecIds, a \in BOOLEAN :
       Spend("direct", MaxDirectCalls) /\ DirectExecute(s, t, a)
  \/ \E c \in calls, ok \in BOOLEAN : BackendRespond(c, ok) /\ Free

SpecExec == Init /\ [][NextExec]_vars

\* The registry: servers register, send heartbeats with their health checks
\* and are unregistered, by a call or by the periodic cleanup, as time passes.
NextRegistry ==
  \/ \E d \in TickSteps : Spend("ticks", MaxTicks) /\ Tick(d)
  \/ \E s \in Servers : MayRegister(s) /\ RegisterServer(s) /\ Free
  \/ \E s \in Servers : Spend("checks", MaxBeats) /\ ServerAlarm(s, "ok")
  \/ \E s \in Servers, o \in ShutdownOutcomes :
       Spend("unreg", MaxUnregisters) /\ UnregisterServer(s, o)
  \/ \E o \in [Servers -> ShutdownOutcomes] : CleanupStaleServers(o) /\ Free

SpecRegistry == Init /\ [][NextRegistry]_vars

\* The health score: one registered server and the outcomes of its health
\* checks, in every order.
NextHealth ==
  \/ \E s \in CheckedFleet : MayRegister(s) /\ RegisterServer(s) /\ Free
  \/ \E s \in CheckedFleet, o \in HealthOutcomes :
       Spend("checks", MaxHealthChecks) /\ ServerAlarm(s, o)
  \/ \E s \in CheckedFleet, e \in BOOLEAN :
       Spend("ops", MaxModeChanges) /\ SetMaintenanceMode(s, e)

SpecHealth == Init /\ [][NextHealth]_vars

\* Selection: the algorithm is set, servers register and are marked
\* unhealthy, and selectServer is called.
NextSelect ==
  \/ \E s \in Servers : MayRegister(s) /\ RegisterServer(s) /\ Free
  \/ \E a \in Algorithms : Spend("ops", MaxAlgorithmChanges) /\ SetAlgorithm(a)
  \/ \E k \in LBKeys : Spend("checks", MaxMarks) /\ MarkUnhealthyCall(k)
  \/ \E cr \in CriteriaSet : Spend("direct", MaxDirectCalls) /\ DirectSelect(cr)

SpecSelect == Init /\ [][NextSelect]_vars

\* Weights: metrics are reported to the load balancer, which computes the
\* weight of each reporting server from them.
NextWeight ==
  \E k \in LBKeys, m \in ReportedMetrics :
    Spend("direct", MaxReports) /\ ReportMetrics(k, m)

SpecWeight == Init /\ [][NextWeight]_vars

\* A health check of s that finds the backend healthy.
HealthyCheck(s) ==
  /\ srv[s].consecutiveSuccesses < MaxSuccesses
  /\ ServerAlarm(s, "ok")
  /\ Free

\* Recovery: a few health checks fail, and from then on they succeed.  Every
\* check schedules the next one (scheduleHealthCheck) and the runtime fires a
\* scheduled alarm, so a check that can succeed eventually runs.
NextRecovery ==
  \/ \E s \in Servers : MayRegister(s) /\ RegisterServer(s) /\ Free
  \/ \E s \in Servers, o \in HealthOutcomes \ {"ok"} :
       Spend("checks", MaxChecks) /\ ServerAlarm(s, o)
  \/ \E s \in Servers : HealthyCheck(s)

SpecRecovery ==
  /\ Init
  /\ [][NextRecovery]_vars
  /\ \A s \in Servers : WF_vars(HealthyCheck(s))

\* The aggregator of the day on its own: the route's start events, the task
\* instances' complete events, and its flush alarm, which re-arms itself
\* every FLUSH_INTERVAL and so fires many times within one hour.
RecordStartCall ==
  /\ stats' = RecordTaskStart(stats, now)
  /\ last' = Returned("recordTaskStart", "", "ok")
  /\ UNCHANGED <<now, fleetVars, taskVars, calls>>

RecordCompleteCall(ev) ==
  /\ stats' = RecordTaskComplete(stats, ev, now)
  /\ last' = Returned("recordTaskComplete", "", "ok")
  /\ UNCHANGED <<now, fleetVars, taskVars, calls>>

StatsAlarm ==
  /\ stats' = StatsAlarmed(stats, now)
  /\ last' = Returned("statsAlarm", "", "ok")
  /\ UNCHANGED <<now, fleetVars, taskVars, calls>>

NextStats ==
  \/ \E d \in TickSteps : Spend("ticks", MaxTicks) /\ Tick(d)
  \/ Spend("ops", MaxStatEvents) /\ RecordStartCall
  \/ \E ok \in BOOLEAN, rc \in 0..1 :
       Spend("ops", MaxStatEvents)
       /\ RecordCompleteCall([taskId |-> "t1", serverId |-> "s1",
                              success |-> ok, retries |-> rc])
  \/ Free /\ StatsAlarm

SpecStats == Init /\ [][NextStats]_vars

\* Time passes until the alarm a task instance has set is due.
TickToAlarm(t) ==
  /\ calls = {}
  /\ talarm[t] # NoAlarm
  /\ now < talarm[t]
  /\ now' = talarm[t]
  /\ last' = Returned("tick", "", "")
  /\ UNCHANGED <<fleetVars, taskVars, calls, stats>>

\* What the runtime does by itself for a task: it lets time reach a set
\* alarm, fires a due alarm, and resumes an invocation that awaits the load
\* balancer, the server instance or the backend's answer.
AlarmComesDue(t) == TickToAlarm(t) /\ Free

AlarmFires(t) == TaskAlarm(t) /\ Free

CallResumes ==
  \/ \E c \in calls : AssignResume(c) /\ Free
  \/ \E c \in calls, ok \in BOOLEAN : BackendRespond(c, ok) /\ Free
  \/ \E c \in calls : Continue(c) /\ Free

\* The life of a task to its end: clients create, update, retry and cancel
\* it a bounded number of times; the runtime's own steps are not bounded and
\* are taken whenever they stay possible.
NextLive ==
  \/ \E s \in TaskFleet : MayRegister(s) /\ RegisterServer(s) /\ Free
  \/ \E t \in Tasks, r \in Requests : Spend("ops", MaxLiveOps) /\ CreateTask(t, r)
  \/ \E t \in Tasks, u \in Updates : Spend("ops", MaxLiveOps) /\ UpdateTask(t, u)
  \/ \E t \in Tasks :
       Spend("ops", MaxLiveOps) /\ Cardinality(calls) < MaxInFlight /\ Retry(t)
  \/ \E t \in Tasks : Spend("ops", MaxLiveOps) /\ Cancel(t)
  \/ \E t \in Tasks : AlarmComesDue(t)
  \/ \E t \in Tasks : AlarmFires(t)
  \/ CallResumes

SpecLive ==
  /\ Init
  /\ [][NextLive]_vars
  /\ \A t \in Tasks : WF_vars(AlarmComesDue(t)) /\ WF_vars(AlarmFires(t))
  /\ WF_vars(CallResumes)

\* The call chains of the operations, one operation at a time.
NextCalls ==
  \/ \E f \in RootCalls :
       /\ used.direct < MaxRootCalls
       /\ used' = [used EXCEPT !.direct = @ + 1]
       /\ StartCall(f)
  \/ AwaitNext /\ UNCHANGED used
  \/ ReturnCall /\ UNCHANGED used
  \/ ThrowCall /\ UNCHANGED used

SpecCalls == Init /\ [][NextCalls]_vars

\* ------------------------------------------------------------------------
\* Properties
\* ------------------------------------------------------------------------
\* The number of recordTaskComplete events the aggregator has received.
Events == stats.successfulTasks + stats.failedTasks

\* C1: a task's status only moves forward; in particular a task that has
\* reached a terminal status (COMPLETED, FAILED, TIMEOUT, CANCELLED) is never
\* PENDING or PROCESSING again.  Stated here with retry() left aside: no step
\* other than a retry() call takes a terminal task to a non-terminal status.
C1_TerminalIsFinal ==
  [][\A t \in Tasks :
       (/\ task[t] # Null
        /\ task'[t] # Null
        /\ IsTaskComplete(task[t].status)
        /\ last'.op # "retry")
       => IsTaskComplete(task'[t].status)]_vars

\* C2: every step that takes a task into a terminal status delivers exactly
\* one recordTaskComplete event.
C2_TerminalIsNotified ==
  [][\A t \in Tasks :
       (/\ task'[t] # Null
        /\ IsTaskComplete(task'[t].status)
        /\ (task[t] = Null \/ task[t].status # task'[t].status))
       => Events' = Events + 1]_vars

\* C3: whatever the interleaving of executeTask calls and backend answers, a
\* server never holds more active tasks than its maxConcurrent.
C3_ActiveWithinCapacity ==
  \A s \in Servers : Cardinality(srv[s].activeTasks) <= MaxConcurrentOf(srv[s], s)

\* C3 happens: a server is full and an executeTask call was turned away.
C3_Witness ==
  /\ last.op = "executeTask"
  /\ last.ret = "throw: Server at maximum capacity"
  /\ \E s \in Servers :
       /\ srv[s].config
       /\ Cardinality(srv[s].activeTasks) = MaxConcurrentOf(srv[s], s)

\* C4: a server selectServer returns is in the healthy set when it returns,
\* its recorded activeTasks is below its maxCapacity, and its capabilities
\* include every required capability.
C4_SelectedIsEligible ==
  [][(last'.op = "selectServer" /\ last'.sel.selected # NoServer)
     => LET id == last'.sel.selected
        IN /\ id \in Range(lb'.healthy)
           /\ id \in DOMAIN lb'.metrics
           /\ lb'.metrics[id].activeTasks < lb'.metrics[id].maxCapacity
           /\ last'.sel.criteria.requiredCapabilities
                \subseteq lb'.metrics[id].capabilities]_vars

\* C4 happens: selectServer returned the capable server of a healthy set that
\* also holds a server without the required capability.
C4_Witness ==
  /\ last.op = "selectServer"
  /\ last.sel.criteria.requiredCapabilities = {"video"}
  /\ last.sel.selected = "s1"
  /\ "s2" \in Range(lb.healthy)

\* C5: a task holds as many attempt records as its retry counter says, and
\* never more than MAX_RETRIES.
C5_AttemptsMatchRetryCount ==
  \A t \in Tasks :
    task[t] # Null =>
      /\ Len(task[t].attempts) = retryCount[t]
      /\ retryCount[t] <= MAX_RETRIES

\* C5 happens: the retry budget is spent and a further retry() was refused.
C5_Witness ==
  /\ last.op = "retry"
  /\ last.ret = "false"
  /\ \E t \in Tasks :
       /\ task[t] # Null
       /\ retryCount[t] = MAX_RETRIES
       /\ Len(task[t].attempts) = MAX_RETRIES

\* C6: createTask on an object that already holds a task returns that task and
\* changes nothing: no selection, no dispatch, and status, attempts, retry
\* counter and timers are as before.
C6_CreateIsIdempotent ==
  [][\A t \in Tasks :
       (last'.op = "createTask" /\ last'.id = t /\ task[t] # Null)
       => /\ last'.task = task[t]
          /\ UNCHANGED <<task, retryCount, tstore, talarm, calls, lb, reg, srv,
                         stats>>]_vars

\* C6 happens: createTask was called on a task that had been retried and is
\* being processed.
C6_Witness ==
  /\ last.op = "createTask"
  /\ last.ret = "existing"
  /\ last.task # Null
  /\ last.task.status = "PROCESSING"
  /\ Len(last.task.attempts) > 0

\* C7: when cancel() arrives while createTask is suspended in selectServer,
\* the task stays CANCELLED once createTask goes on: it is not marked
\* PROCESSING or FAILED, no server is given the task, and no further
\* completion event is sent.
C7_CancelWinsOverAssignment ==
  [][\A c \in calls :
       (/\ c.op = "create"
        /\ c.pc = "select"
        /\ c \notin calls'
        /\ task[c.t] # Null
        /\ task[c.t].status = "CANCELLED")
       => /\ task'[c.t].status = "CANCELLED"
          /\ srv' = srv
          /\ Events' = Events]_vars

\* C8: when the alarm handler has timed a task out and retried it, a timeout
\* is pending for the new attempt, so that a task whose backend never calls
\* back goes on to its next timeout (and to the final TIMEOUT after
\* MAX_RETRIES retries).
C8_RetryRearmsTimeout ==
  [][\A c \in calls :
       (c.op = "alarm" /\ c.pc = "reply" /\ c.ok /\ c \notin calls')
       => talarm'[c.t] # NoAlarm]_vars

\* C9: a task that is PROCESSING has a pending timer.
C9_ProcessingHasTimer ==
  \A t \in Tasks :
    (task[t] # Null /\ task[t].status = "PROCESSING") => talarm[t] # NoAlarm

\* What getAvailableServers() reports for server s in this state.
ReportedStatus(s) ==
  LET result == GetAvailableServers(reg, NoFilter, now).result
  IN {result[i].status : i \in {j \in 1..Len(result) : result[j].id = s}}

\* What selectServer(criteria) can return in this state.
Selectable(criteria) ==
  {SelectServer(lb, reg, criteria, now, pick).selected :
     pick \in SelectPicks(lb, reg, criteria, now)}

\* C10: a registered server whose last three health checks failed is
\* reported offline by getAvailableServers and is not returned by
\* selectServer.
C10_FailedServerIsOffline ==
  \A s \in Servers :
    (s \in DOMAIN reg.servers /\ srv[s].consecutiveFailures >= OFFLINE_FAILURES)
    => /\ ReportedStatus(s) = {"offline"}
       /\ \A cr \in CriteriaSet : s \notin Selectable(cr)

\* C11: while a registered server is in maintenance mode, the registry
\* reports its status as maintenance and selectServer does not return it.
C11_MaintenanceIsHonoured ==
  \A s \in Servers :
    (s \in DOMAIN reg.servers /\ srv[s].status = "maintenance")
    => /\ ReportedStatus(s) = {"maintenance"}
       /\ \A cr \in CriteriaSet : s \notin Selectable(cr)

\* C12: no operation awaits a chain of calls that leads back into the object
\* it runs on: no object occurs twice in the chain of awaited calls (which is
\* what lets every operation return when an object runs one operation at a
\* time).
C12_NoAwaitedCallBack ==
  \A i, j \in 1..Len(chain) : i < j => chain[i].actor # chain[j].actor

\* C13: updateTask succeeds only on a PROCESSING task; in every other status
\* it fails and leaves the task, its stored copy, its timer and the recorded
\* completion events as they were.
C13_UpdateOnlyWhenProcessing ==
  [][\A t \in Tasks :
       (last'.op = "updateTask" /\ last'.id = t /\ task[t] # Null)
       => IF task[t].status = "PROCESSING"
            THEN last'.ret = "ok"
            ELSE /\ last'.ret = "throw: Cannot update task"
                 /\ UNCHANGED <<task, retryCount, tstore, talarm, stats>>]_vars

\* C13 happens: an update was refused on a task that is still PENDING, its
\* timeout pending.
C13_Witness ==
  /\ last.op = "updateTask"
  /\ last.ret = "throw: Cannot update task"
  /\ task[last.id].status = "PENDING"
  /\ talarm[last.id] # NoAlarm

\* C14: cancel succeeds exactly on a task in a non-terminal status, and then
\* the task is CANCELLED, one completion event is recorded and the cleanup is
\* armed CLEANUP_DELAY ahead; on a task in a terminal status (a cancelled one
\* included) it fails and changes nothing.
C14_CancelOnlyWhenActive ==
  [][\A t \in Tasks :
       (last'.op = "cancel" /\ last'.id = t /\ task[t] # Null)
       => IF task[t].status \in ActiveStatuses
            THEN /\ last'.ret = "ok"
                 /\ task'[t].status = "CANCELLED"
                 /\ Events' = Events + 1
                 /\ talarm'[t] = now + CLEANUP_DELAY
            ELSE /\ last'.ret = "throw: Cannot cancel completed task"
                 /\ UNCHANGED <<task, retryCount, tstore, talarm, stats>>]_vars

\* C14 happens: a second cancel was refused on a cancelled task.
C14_Witness ==
  /\ last.op = "cancel"
  /\ last.ret = "throw: Cannot cancel completed task"
  /\ task[last.id].status = "CANCELLED"
  /\ stats.failedTasks = 1

\* C15: retry() returns false and leaves task, attempts and retry counter
\* unchanged when there is no task, when the counter has reached MAX_RETRIES,
\* or when the status is neither FAILED nor TIMEOUT; otherwise it counts and
\* records the attempt and reassigns the task, and it returns true when the
\* dispatch to the selected server succeeds, so a retry at MAX_RETRIES - 1
\* can succeed and one at MAX_RETRIES cannot.
C15_RetryGuards ==
  [][/\ \A t \in Tasks :
          (last'.op = "retry" /\ last'.id = t)
          => IF \/ task[t] = Null
                \/ retryCount[t] >= MAX_RETRIES
                \/ task[t].status \notin {"FAILED", "TIMEOUT"}
               THEN /\ last'.ret = "false"
                    /\ UNCHANGED <<task, retryCount, tstore>>
               ELSE /\ last'.ret = "suspended"
                    /\ retryCount'[t] = retryCount[t] + 1
                    /\ Len(task'[t].attempts) = Len(task[t].attempts) + 1
                    /\ task'[t].status = "PENDING"
     /\ \A c \in calls :
          (c.op = "retry" /\ c \notin calls' /\ c.pc = "reply")
          => /\ c.n <= MAX_RETRIES
             /\ last'.op = "retry return"
             /\ last'.ret = IF c.ok THEN "true" ELSE "false"]_vars

\* C15 happens: a retry started at MAX_RETRIES - 1 has returned true.
C15_Witness ==
  /\ last.op = "retry return"
  /\ last.ret = "true"
  /\ retryCount[last.id] = MAX_RETRIES
  /\ task[last.id].status = "PROCESSING"

\* C16: when selectServer has returned null to createTask, createTask
\* returns the task with status FAILED and error "No available servers"; no
\* server is given the task and no invocation stays suspended for it.
C16_NoServerFailsTask ==
  [][\A c \in calls :
       (c.op = "create" /\ c.pc = "select" /\ c.sid = NoServer /\ c \notin calls')
       => /\ last'.op = "createTask return"
          /\ last'.task = task'[c.t]
          /\ task'[c.t].status = "FAILED"
          /\ task'[c.t].error = "No available servers"
          /\ srv' = srv
          /\ \A d \in calls' : d.t # c.t]_vars

\* C16 happens: createTask has returned a FAILED task while no server is
\* registered.
C16_Witness ==
  /\ last.op = "createTask return"
  /\ last.task # Null
  /\ last.task.status = "FAILED"
  /\ last.task.error = "No available servers"
  /\ reg.servers = <<>>

\* C17: when the backend has answered the dispatch of createTask with a
\* failure (a non-2xx response or a network error), an asynchronous task is
\* still PROCESSING once createTask goes on, and a synchronous task is
\* FAILED.
C17_DispatchFailure ==
  [][\A c \in calls :
       (/\ c.op = "create"
        /\ c.pc = "reply"
        /\ ~c.ok
        /\ c.err = "Backend returned 500"
        /\ c \notin calls'
        /\ task[c.t].status = "PROCESSING")
       => task'[c.t].status = IF c.async THEN "PROCESSING" ELSE "FAILED"]_vars

\* C18: when createTask has assigned an asynchronous task to a capable
\* online server and the dispatch succeeded, the task it returns (whose
\* status the route answers with) is PENDING, and the task is PROCESSING.
C18_CreateAnswersPending ==
  [][\A c \in calls :
       (/\ c.op = "create"
        /\ c.pc = "reply"
        /\ c.async
        /\ c.ok
        /\ c \notin calls'
        /\ task[c.t].status = "PROCESSING")
       => /\ last'.op = "createTask return"
          /\ last'.task.status = "PENDING"
          /\ task'[c.t].status = "PROCESSING"]_vars

\* C19: the storage of a task is erased only when the task is in a terminal
\* status and CLEANUP_DELAY has passed since its last update; and once that
\* delay has passed for a terminal task, with no alarm of the task due and
\* no invocation suspended, its storage has been erased.
C19_PurgedAfterCleanupDelay ==
  [][\A t \in Tasks :
       /\ (tstore[t] # EmptyStore /\ tstore'[t] = EmptyStore)
          => /\ task[t] # Null
             /\ IsTaskComplete(task[t].status)
             /\ now - task[t].updatedAt >= CLEANUP_DELAY
       /\ (/\ task'[t] # Null
           /\ IsTaskComplete(task'[t].status)
           /\ now' - task'[t].updatedAt >= CLEANUP_DELAY
           /\ (talarm'[t] = NoAlarm \/ now' < talarm'[t])
           /\ calls' = {})
          => tstore'[t] = EmptyStore]_vars

\* The ids getAvailableServers() lists for registry r at time t.
ListedIds(r, t) == Range(Ids(GetAvailableServers(r, NoFilter, t).result))

\* C20: after registerServer(c), getAvailableServers lists c.id; after
\* unregisterServer(c.id), it does not.
C20_RegistryRoundTrip ==
  [][\A s \in Servers :
       /\ (last'.op = "registerServer" /\ last'.id = s)
          => s \in ListedIds(reg', now')
       /\ (last'.op = "unregisterServer" /\ last'.id = s)
          => s \notin ListedIds(reg', now')]_vars

\* C20 happens: a registered server was unregistered and is no longer
\* listed, while the other server still is.
C20_Witness ==
  /\ last.op = "unregisterServer"
  /\ last.ret = "removed"
  /\ last.id \notin ListedIds(reg, now)
  /\ ListedIds(reg, now) # {}

\* C21: getAvailableServers never returns with status online a server whose
\* last heartbeat is older than STALE_THRESHOLD: it is reported offline and
\* a status=online filter leaves it out.
C21_StaleIsReportedOffline ==
  \A s \in DOMAIN reg.servers :
    now - reg.servers[s].lastHeartbeat > STALE_THRESHOLD
    => /\ ReportedStatus(s) = {"offline"}
       /\ s \notin Range(Ids(GetAvailableServers(reg, OnlineFilter, now).result))
       /\ GetAvailableServers(reg, NoFilter, now).reg.servers[s].status = "offline"

\* C21 happens: a server stored as online has a heartbeat older than the
\* threshold while another server with a recent heartbeat is listed online.
C21_Witness ==
  \E s, o \in DOMAIN reg.servers :
    /\ reg.servers[s].status = "online"
    /\ now - reg.servers[s].lastHeartbeat > STALE_THRESHOLD
    /\ o \in Range(Ids(GetAvailableServers(reg, OnlineFilter, now).result))

\* C22: the LoadBalancer's healthy set holds only ids that are registered in
\* the ServerRegistry, and no server whose last heartbeat is older than the
\* stale threshold.
C22_HealthyIsRegisteredAndFresh ==
  \A k \in Range(lb.healthy) :
    /\ k \in DOMAIN reg.servers
    /\ ~ IsStale(reg.servers[k], now)

\* The registered servers whose heartbeat is older than STALE_THRESHOLD.
StaleServers ==
  {s \in DOMAIN reg.servers : now - reg.servers[s].lastHeartbeat > STALE_THRESHOLD}

\* C23: cleanupStaleServers removes exactly the servers whose last heartbeat
\* is older than STALE_THRESHOLD, returns exactly the removed ids, and
\* requests a rebalance only if at least one server was removed.
C23_CleanupRemovesExactlyStale ==
  [][last'.op = "cleanupStaleServers"
     => /\ DOMAIN reg'.servers = DOMAIN reg.servers \ StaleServers
        /\ Range(reg'.order) = DOMAIN reg.servers \ StaleServers
        /\ \A g \in DOMAIN reg'.groups : reg'.groups[g] \cap StaleServers = {}
        /\ Range(last'.sel.removed) = StaleServers
        /\ Len(last'.sel.removed) = Cardinality(StaleServers)
        /\ (last'.sel.rebalances > 0 => StaleServers # {})
        /\ (StaleServers = {} => lb' = lb)]_vars

\* C23 happens: a cleanup removed a stale server and kept another, whose
\* heartbeat was recent.
C23_Witness ==
  /\ last.op = "cleanupStaleServers"
  /\ Len(last.sel.removed) = 1
  /\ last.sel.rebalances = 2
  /\ Cardinality(DOMAIN reg.servers) = 1

\* C24: unregisterServer removes the server's record and its group-index
\* entries even when the awaited ServerInstance.shutdown raises an error, and
\* on an id that is not registered it succeeds and changes nothing.
C24_UnregisterAlwaysRemoves ==
  [][\A s \in Servers :
       (last'.op = "unregisterServer" /\ last'.id = s)
       => /\ last'.ret \in {"removed", "not found"}
          /\ s \notin DOMAIN reg'.servers
          /\ s \notin Range(reg'.order)
          /\ \A g \in DOMAIN reg'.groups : s \notin reg'.groups[g]
          /\ (s \notin DOMAIN reg.servers
              => /\ last'.ret = "not found"
                 /\ <<reg', lb', srv'>> = <<reg, lb, srv>>)]_vars

\* C24 happens: a server in a group was unregistered while its shutdown()
\* failed (its instance still holds its configuration), and its record and
\* group entry are gone.
C24_Witness ==
  /\ last.op = "unregisterServer"
  /\ last.ret = "removed"
  /\ ServerConfig(last.id).groups # {}
  /\ srv[last.id].stored.config
  /\ last.id \notin DOMAIN reg.servers

\* C25: a failure of a purely optimizing call to another object (the load
\* balancer's rebalance or metric update, the registry's heartbeat) never
\* fails the operation that made it: ServerInstance.initialize, the health
\* check, setMaintenanceMode, ServerRegistry.registerServer, unregisterServer
\* and updateHeartbeat still complete.
C25_OptimizingFailureIsSwallowed ==
  [][last'.op = "failure"
     => last'.sel.thrown \cap {"initialize", "alarm", "setMaintenanceMode",
                               "registerServer", "unregisterServer",
                               "updateHeartbeat"} = {}]_vars

\* C26: executeTask is accepted only when the status of the ServerInstance is
\* online and its active task count is below maxConcurrent; otherwise it
\* fails, as unavailable or at capacity, without contacting the backend and
\* without changing the active set.
C26_ExecuteOnlyWhenOnlineWithRoom ==
  [][(last'.op = "executeTask" /\ calls \subseteq calls')
     => IF last'.ret = "suspended"
          THEN \E c \in calls' \ calls :
                 /\ calls' = calls \cup {c}
                 /\ c.t = last'.id
                 /\ srv[c.sid].status = "online"
                 /\ Cardinality(srv[c.sid].activeTasks)
                      < MaxConcurrentOf(srv[c.sid], c.sid)
          ELSE /\ calls' = calls
               /\ \A s \in Servers : srv'[s].activeTasks = srv[s].activeTasks
               /\ last'.ret \in
                    {"throw: Server at maximum capacity"} \cup
                    {"throw: Server is " \o st \o ", cannot execute tasks" :
                       st \in {"initializing", "maintenance", "offline",
                               "degraded"}}]_vars

\* C26 happens: an executeTask was refused for capacity while another
\* execution was under way, and one was refused on a server in maintenance.
C26_Witness ==
  /\ last.op = "executeTask"
  /\ last.ret = "throw: Server at maximum capacity"
  /\ calls # {}
  /\ \E s \in Servers : srv[s].status = "maintenance"

\* C27: whenever executeTask finishes (success, backend error, timeout, or
\* failure to deliver a synchronous result) the task id is no longer in the
\* active set of the server.
C27_FinishedIsNotActive ==
  [][\A c \in calls :
       (c.pc = "fetch" /\ c \notin calls')
       => /\ last'.op = "executeTask"
          /\ c.t \notin srv'[c.sid].activeTasks]_vars

\* C27 happens: an executeTask ended with the failure to deliver its
\* synchronous result, and no server holds an active task any more.
C27_Witness ==
  /\ last.op = "executeTask"
  /\ last.ret = "throw: Task not found"
  /\ calls = {}
  /\ \A s \in Servers : srv[s].activeTasks = {}
  /\ \E s \in Servers : srv[s].metrics.failureCount > 0

\* C28: for every sequence of health-check outcomes the health score stays
\* within 0..100: a success adds 5, capped at 100, and a failure subtracts
\* 10, floored at 0.
C28_HealthScoreWithinBounds ==
  [][\A s \in Servers :
       /\ srv'[s].healthScore \in 0..100
       /\ (last'.op = "serverAlarm" /\ last'.id = s /\ last'.ret # "shutdown")
          => IF srv'[s].consecutiveFailures = 0
               THEN srv'[s].healthScore = Min(100, srv[s].healthScore + 5)
               ELSE srv'[s].healthScore = Max(0, srv[s].healthScore - 10)]_vars

\* C28 happens: the score was on its floor, where one more failure left it,
\* and a successful check has raised it again.
C28_Witness ==
  \E s \in Servers :
    /\ srv[s].healthScore = 5
    /\ srv[s].consecutiveSuccesses = 1
    /\ used.checks >= 12

\* The candidates of a selectServer(criteria) called in this state.
Candidates(criteria) ==
  AvailableServers(RefreshServerList(lb, reg, now).lb, criteria)

\* C29: with the algorithm round-robin and an unchanged candidate set of n
\* servers, any n consecutive selections return each candidate exactly once
\* (here n = 2: two selections in a row return different servers).
C29_RoundRobinVisitsEachOnce ==
  [][(/\ lb.algorithm = "round-robin"
      /\ last.op = "selectServer"
      /\ last'.op = "selectServer"
      /\ last'.sel.criteria = last.sel.criteria
      /\ Len(Candidates(last.sel.criteria)) = 2)
     => last'.sel.selected # last.sel.selected]_vars

\* C30: under weighted-round-robin a candidate whose weight is 0 is never
\* returned by selectServer while another candidate has a positive weight.
C30_ZeroWeightIsSkipped ==
  [][(lb.algorithm = "weighted-round-robin" /\ last'.op = "selectServer")
     => LET l == RefreshServerList(lb, reg, now).lb
            cands == Range(AvailableServers(l, last'.sel.criteria))
        IN \A s \in cands :
             (/\ s \in DOMAIN l.weights
              /\ l.weights[s] = 0
              /\ \E o \in cands : o \in DOMAIN l.weights /\ l.weights[o] > 0)
             => last'.sel.selected # s]_vars

\* C31: the weight computed from metrics is monotone over all non-negative
\* inputs, averageResponseTime = 0 and successRate = 0 included: of two
\* servers, the one with the success rate not higher and the average response
\* time not lower never has the greater weight.
C31_WeightIsMonotone ==
  \A a, b \in DOMAIN lb.metrics \cap DOMAIN lb.weights :
    (/\ ~ RatLess(lb.metrics[b].successRate, lb.metrics[a].successRate)
     /\ ~ RatLess(lb.metrics[a].averageResponseTime,
                  lb.metrics[b].averageResponseTime))
    => lb.weights[a] <= lb.weights[b]

\* C32: a health check changes the status of a ServerInstance only along
\* online -> degraded (on a failure), degraded -> offline (at 3 consecutive
\* failures) and degraded -> online (at 3 consecutive successes); it causes
\* no other status change, in particular none out of maintenance.
C32_HealthCheckTransitions ==
  [][\A s \in Servers :
       (last'.op = "serverAlarm" /\ last'.id = s /\ last'.ret # "shutdown")
       => \/ srv'[s].status = srv[s].status
          \/ /\ srv[s].status = "online"
             /\ srv'[s].status = "degraded"
             /\ srv'[s].consecutiveFailures >= 1
          \/ /\ srv[s].status = "degraded"
             /\ srv'[s].status = "offline"
             /\ srv'[s].consecutiveFailures >= OFFLINE_FAILURES
          \/ /\ srv[s].status = "degraded"
             /\ srv'[s].status = "online"
             /\ srv'[s].consecutiveSuccesses >= RECOVERY_SUCCESSES]_vars

\* C33: every status transition of a ServerInstance is persisted: after any
\* operation or health check the stored status equals the status in memory,
\* so an instance rebuilt from its storage resumes with the status it had.
C33_StatusIsPersisted ==
  \A s \in Servers :
    srv[s].config
    => /\ srv[s].stored.status = srv[s].status
       /\ ReloadedStatus(srv[s]) = srv[s].status

\* C34: for every recordTaskComplete event with retries > 0 the retriedTasks
\* counter increases by exactly 1, and for an event with retries = 0 it is
\* unchanged.  (The event of a task carries its retryCount.)
C34_RetriedTasksCounted ==
  [][\A t \in Tasks :
       Events' = Events + 1
       => stats'.retriedTasks =
            stats.retriedTasks + (IF retryCount[t] > 0 THEN 1 ELSE 0)]_vars

\* The invocations that selected server s and whose executeTask has not
\* finished.
InFlight(s) == {c \in calls : c.sid = s /\ c.pc \in {"select", "fetch"}}

\* C35: for every server the in-flight load counter of the LoadBalancer
\* equals the number of tasks selected for that server whose execution has
\* not finished; it is back at 0 once all tasks dispatched to it are done.
C35_LoadCountsInFlight ==
  \A s \in Servers : MapGet(lb.loads, s, 0) = Cardinality(InFlight(s))

\* C36: a registered server that went offline after failed health checks and
\* whose health checks then succeed continuously eventually returns to status
\* online at its ServerInstance and is selectable again.
C36_OfflineServerRecovers ==
  \A s \in Servers :
    (/\ s \in DOMAIN reg.servers
     /\ srv[s].status = "offline"
     /\ srv[s].consecutiveFailures >= OFFLINE_FAILURES)
    ~> (/\ srv[s].status = "online"
        /\ \E cr \in CriteriaSet : s \in Selectable(cr))

\* The tasks whose start event is recorded and whose complete event is not:
\* the start events count in totalTasks, the complete events in the two
\* outcome counters.
StartedNotCompleted ==
  IF stats.totalTasks > Events THEN stats.totalTasks - Events ELSE 0

\* C37: the pendingTasks counter of the StatsAggregator always equals the
\* number of tasks whose start event has been recorded and whose complete
\* event has not, and it is 0 once every created task is terminal.
C37_PendingCountsOpenTasks ==
  /\ stats.pendingTasks = StartedNotCompleted
  /\ (/\ calls = {}
      /\ \A t \in Tasks : task[t] # Null /\ IsTaskComplete(task[t].status))
     => stats.pendingTasks = 0

\* C38: a flush alarm that fires during hour 0 while counters of hour 0 are
\* already recorded (they belong to the current day: the clock stays within
\* the day that began at the start) leaves the hourly counters unchanged.
C38_LaterFlushKeepsHourly ==
  [][(last'.op = "statsAlarm" /\ HourOf(now) = 0
      /\ 0 \in DOMAIN stats.hourlyStats)
     => stats'.hourlyStats = stats.hourlyStats]_vars

\* C39: a complete event is recorded for a task, and its cleanup timer is
\* armed, only by a step that leaves the task in a terminal status.
C39_NotifiedOnlyWhenTerminal ==
  [][\A t \in Tasks :
       (\/ Events' = Events + 1
        \/ (talarm'[t] # talarm[t] /\ talarm'[t] = now' + CLEANUP_DELAY))
       => (task'[t] # Null /\ IsTaskComplete(task'[t].status))]_vars

\* C40: a task that is PENDING or PROCESSING eventually has a terminal
\* status (or has been cleaned up after one); it is not left PENDING or
\* PROCESSING forever, whether or not a retry's assignment failed.
C40_TaskReachesTerminal ==
  \A t \in Tasks :
    (task[t] # Null /\ task[t].status \in {"PENDING", "PROCESSING"})
      ~> (task[t] = Null \/ IsTaskComplete(task[t].status))

====
